---- MODULE Spec2Model ----
(***************************************************************************)
(* Fossil Threads: barrier, mutex, condition variable, thread lifecycle,   *)
(* thread pool, fibers and the ghost scheduler, modelled from the POSIX    *)
(* branches of src/code/logic.                                             *)
(***************************************************************************)
EXTENDS Integers, Sequences, FiniteSets, TLC

(***************************************************************************)
(* Error codes                                                             *)
(***************************************************************************)
OK == 0
EINVAL == 22
EBUSY == 16
ETIMEDOUT == 110
ENOTSTARTED == 201
EFINISHED == 202
EDETACHED == 204
ECANCELLED == 205
EINTERNAL == 250
GHOST_OK == 0
GHOST_EINVAL == 22
GHOST_ENOMEM == 12
GHOST_EBUSY == 16
GHOST_EINTERNAL == 199
FIBER_OK == 0
FIBER_EINVAL == 22
EPERM == 1
COND_EINTERNAL == 199

(***************************************************************************)
(* Bounds                                                                  *)
(***************************************************************************)
MaxParties == 3
MaxRounds == 2
MaxCalls == 2
MaxWaiters == 2
MaxCreates == 2
MaxResets == 1
MaxPoolThreads == 2
MaxTasks == 2
MaxGhosts == 2
MaxCands == 2
MaxLedger == 2
MaxQueue == 2
MaxGhostOps == 4
MaxRoundOps == 5
MaxRoundLedger == 4
MaxSerialOps == 5
MaxFibers == 2
MaxMutexThreads == 2
MaxDepth == 2
MaxCondThreads == 2
MaxCondOps == 5

VARIABLES
    barrier,      \* fossil_threads_barrier_t: threshold, count, cycle, destroyed, mutex.valid, cond.valid, cond.waiters
    bmutex,       \* owner of the pthread mutex behind barrier.mutex (0: free)
    bsleep,       \* threads blocked inside pthread_cond_(timed)wait on barrier.cond
    bpc,          \* per thread: position inside barrier_wait / barrier_wait_timeout
    btimed,       \* per thread: the call in progress is barrier_wait_timeout
    bcycle,       \* per thread: the local `cycle` read on arrival
    bresult,      \* per thread: the local `result` of barrier_wait_timeout
    brc,          \* per thread: what pthread_cond_(timed)wait is about to return
    bret,         \* per thread: value returned by the last completed call (meaningful once bcalls > 0)
    bcalls,       \* per thread: number of completed calls
    bretcount,    \* per thread: barrier.count observed when the last call returned
    bctl,         \* position of the controlling thread inside barrier_destroy
    bresets,      \* number of barrier_reset calls made
    batdestroy,   \* threads that were suspended on barrier.cond when barrier_destroy was called
    brounds       \* number of calls each party makes in the cyclic scenario

VARIABLES
    thr,          \* fossil_threads_thread_t: the Thread record
    wpc,          \* per OS thread started by thread_create: position inside fossil__thread_start
    wret,         \* per OS thread: the local `ret` of fossil__thread_start
    wcp,          \* per OS thread: its entry function passes a cancellation point
    wcancel,      \* per OS thread: a pthread_cancel request is pending
    tcreated,     \* number of OS threads created so far
    tpc,          \* position of the calling thread inside the Thread operation in progress
    top,          \* the last Thread operation that returned
    tret,         \* its return value
    tout,         \* *retval as stored by the last successful thread_join
    tgot,         \* what the last thread_get_retval returned
    tlife         \* lifecycle of the record: "new", "started", "joined" or "detached"

VARIABLES
    pool,         \* fossil_threads_pool_t: num_threads, tasks_head, tasks_tail, tasks_count, stop
    pnext,        \* per task node: its `next` pointer (0: NULL)
    pthreads,     \* per pool->threads[i]: the `started` field left by thread_create
    pmutex,       \* holders of pool->tasks_mutex (empty: free)
    pw,           \* per worker: position inside fossil__pool_worker
    pwtask,       \* per worker: the local `task` (0: NULL)
    spc,          \* per submitter: position inside pool_submit
    stask,        \* per submitter: the node it allocated
    sret,         \* per submitter: value returned by its last pool_submit
    cpc,          \* position of the client thread inside pool_wait / pool_destroy
    cop,          \* the last pool operation of the client that returned
    pjoin,        \* pool_destroy: index of the next worker to join
    palloc,       \* number of task nodes allocated so far
    paccepted,    \* task nodes for which pool_submit returned OK
    pexec,        \* per task node: how many times a worker called its function
    pdone,        \* task nodes whose function has returned
    pdiscard,     \* per task node: how many times pool_destroy freed it unexecuted
    pwsnap,       \* task nodes accepted before the pool_wait in progress (or last returned) was called
    porder,       \* the task nodes in the order in which pool_submit appended them
    pdeq          \* the task nodes in the order in which workers dequeued them

pvars == <<pool, pnext, pthreads, pmutex, pw, pwtask, spc, stask, sret, cpc,
           cop, pjoin, palloc, paccepted, pexec, pdone, pdiscard, pwsnap,
           porder, pdeq>>

VARIABLES
    gledger,      \* per run: fossil__ledger[0 .. fossil__ledger_count-1]
    gqueue,       \* per run: fossil__queue[0 .. fossil__queue_count-1]
    ghost,        \* per run and ghost object: fossil_threads_ghost_t
    grets,        \* per run: the values returned by its collapse_by_consensus calls, in order
    gcreated,     \* ghost objects on which ghost_create has been called
    gops,         \* number of ghost calls made so far
    gbudget,      \* number of ghost calls the caller makes in all
    gcap          \* capacity of the ledger array (FOSSIL__LEDGER_MAX)

gvars == <<gledger, gqueue, ghost, grets, gcreated, gops, gbudget, gcap>>

VARIABLES
    fib,          \* per fiber object: handle (0: NULL), finished, and uc_link of its ucontext (0: NULL)
    fctx,         \* per fiber object: the fiber whose execution is saved in its ucontext (0: none)
    fcur,         \* fossil__current_fiber (0: NULL)
    frun,         \* the fiber whose code is executing on the OS thread (0: the thread has ended)
    fret,         \* value returned by the last fiber call that returned an error or OK
    fcaller       \* per fiber object: the fiber whose code made the latest successful switch to it (0: none)

fvars == <<fib, fctx, fcur, frun, fret, fcaller>>

VARIABLES
    mplatform,    \* which branch of mutex.c the build compiles: "posix" or "windows"
    mutex,        \* fossil_threads_mutex_t: valid, locked
    mowner,       \* the thread that owns the OS lock behind mutex.handle (0: none)
    mdepth,       \* recursion count of the OS lock (CRITICAL_SECTION is recursive)
    mpc,          \* per thread: position inside mutex_lock / mutex_trylock / mutex_unlock
    mheld,        \* per thread: successful lock/trylock calls not yet matched by an unlock
    mop,          \* per thread: the last mutex operation that returned
    mret,         \* per thread: its return value
    mseen         \* per thread: the owner of the OS lock when its last trylock reached the OS call

mvars == <<mplatform, mutex, mowner, mdepth, mpc, mheld, mop, mret, mseen>>

VARIABLES
    cnd,          \* fossil_threads_cond_t: handle (0: NULL), valid, is_broadcast, waiters
    cvmvalid,     \* valid of the fossil_threads_mutex_t passed to the wait calls
    cvowner,      \* the thread that owns the pthread mutex behind it (0: none)
    cvpc,         \* per thread: position inside cond_wait / cond_timedwait
    cvtimed,      \* per thread: TRUE when its call is cond_timedwait
    cvrc,         \* per thread: what pthread_cond_wait / pthread_cond_timedwait returned
    cvop,         \* per thread: the last operation that returned
    cvret,        \* per thread: its return value
    cvseen,       \* per thread: threads that acquired the mutex during its last wait call
    cvops         \* number of calls made so far

cvars == <<cnd, cvmvalid, cvowner, cvpc, cvtimed, cvrc, cvop, cvret, cvseen, cvops>>

tvars == <<thr, wpc, wret, wcp, wcancel, tcreated, tpc, top, tret, tout, tgot, tlife>>

bvars == <<barrier, bmutex, bsleep, bpc, btimed, bcycle, bresult, brc, bret,
           bcalls, bretcount, bctl, bresets, batdestroy, brounds>>

vars == <<bvars, tvars, pvars, gvars, fvars, mvars, cvars>>

\* what the barrier operations leave alone
BOthers == <<tvars, pvars, gvars, fvars, mvars, cvars>>

\* what the Thread operations leave alone
TOthers == <<bvars, pvars, gvars, fvars, mvars, cvars>>

\* what the pool operations leave alone
POthers == <<bvars, tvars, gvars, fvars, mvars, cvars>>

\* what the ghost operations leave alone
GOthers == <<bvars, tvars, pvars, fvars, mvars, cvars>>

\* what the fiber operations leave alone
FOthers == <<bvars, tvars, pvars, gvars, mvars, cvars>>

\* what the mutex operations leave alone
MOthers == <<bvars, tvars, pvars, gvars, fvars, cvars>>

\* what the cond operations leave alone
COthers == <<bvars, tvars, pvars, gvars, fvars, mvars>>

Workers == 1..MaxCreates

\* values an entry function returns (0 is NULL)
RetVals == {0, 1}

\* (void*)-1, what pthread_join reports for a cancelled thread
PTHREAD_CANCELED == 0 - 1

\* memset(t, 0, sizeof *t)
thread_zero ==
    [handle |-> 0, id |-> 0, retval |-> 0, joinable |-> 0, started |-> 0,
     finished |-> 0, cancel_requested |-> 0, start_time_ns |-> 0,
     end_time_ns |-> 0, exec_time_ns |-> 0, exit_code |-> 0, version |-> 0]

\* fossil_threads_thread_init
thread_init == [thread_zero EXCEPT !.version = 1, !.joinable = 1]

ThreadInit ==
    /\ thr = thread_init
    /\ wpc = [w \in Workers |-> "none"]
    /\ wret = [w \in Workers |-> 0]
    /\ wcp = [w \in Workers |-> FALSE]
    /\ wcancel = [w \in Workers |-> FALSE]
    /\ tcreated = 0
    /\ tpc = "idle"
    /\ top = "init"
    /\ tret = OK
    /\ tout = 0
    /\ tgot = 0
    /\ tlife = "new"

PoolThreads == 1..MaxPoolThreads

\* the client thread is submitter 0, a task running on worker w is submitter w
Client == 0
Submitters == {Client} \cup PoolThreads

Tasks == 1..MaxTasks

\* fossil_threads_pool_create(n): calloc, then one thread_create per worker;
\* `spawned` are the workers whose pthread_create succeeded
PoolInit(n, spawned) ==
    /\ pool = [num_threads |-> n, tasks_head |-> 0, tasks_tail |-> 0,
               tasks_count |-> 0, stop |-> 0]
    /\ pnext = [t \in Tasks |-> 0]
    /\ pthreads = [w \in PoolThreads |-> IF w \in spawned THEN 1 ELSE 0]
    /\ pmutex = {}
    /\ pw = [w \in PoolThreads |-> IF w \in spawned THEN "lock" ELSE "none"]
    /\ pwtask = [w \in PoolThreads |-> 0]
    /\ spc = [s \in Submitters |-> "idle"]
    /\ stask = [s \in Submitters |-> 0]
    /\ sret = [s \in Submitters |-> OK]
    /\ cpc = "idle"
    /\ cop = "create"
    /\ pjoin = 1
    /\ palloc = 0
    /\ paccepted = {}
    /\ pexec = [t \in Tasks |-> 0]
    /\ pdone = {}
    /\ pdiscard = [t \in Tasks |-> 0]
    /\ pwsnap = {}
    /\ porder = <<>>
    /\ pdeq = <<>>

\* the pool when nothing uses it
PoolIdle == PoolInit(1, {})

\* the same call sequence is performed in two runs of the program
Runs == 1..2

Ghosts == 1..MaxGhosts

\* memset(ghost, 0, sizeof(*ghost))
ghost_zero ==
    [id |-> <<>>, func |-> 0, finished |-> 0, step_index |-> 0,
     candidates |-> <<>>, candidate_count |-> 0, state |-> 0]

\* fossil_threads_ghost_init, with the ghost objects not yet created; the
\* caller goes on to make `budget` calls, the ledger array has `cap` slots
GhostStartCap(budget, cap) ==
    /\ gledger = [r \in Runs |-> <<>>]
    /\ gqueue = [r \in Runs |-> <<>>]
    /\ ghost = [r \in Runs |-> [g \in Ghosts |-> ghost_zero]]
    /\ grets = [r \in Runs |-> <<>>]
    /\ gcreated = {}
    /\ gops = 0
    /\ gbudget = budget
    /\ gcap = cap

GhostStart(budget) == GhostStartCap(budget, MaxLedger)

GhostInit == GhostStart(MaxGhostOps)

\* fiber objects: the main fiber of the OS thread and the created ones
MainFiber == 1
Fibers == 1..(MaxFibers + 1)

\* fossil__fiber_zero
fiber_zero == [handle |-> 0, finished |-> 0, uc_link |-> 0]

\* the OS thread has called fossil_threads_fiber_init_self(&main)
FiberInit ==
    /\ fib = [f \in Fibers |-> IF f = MainFiber THEN [fiber_zero EXCEPT !.handle = 1]
                                ELSE fiber_zero]
    /\ fctx = [f \in Fibers |-> IF f = MainFiber THEN MainFiber ELSE 0]
    /\ fcur = MainFiber
    /\ frun = MainFiber
    /\ fret = FIBER_OK
    /\ fcaller = [f \in Fibers |-> 0]

MThreads == 1..MaxMutexThreads

\* fossil_threads_mutex_init succeeded, on a build of the given platform
MutexInit(platform) ==
    /\ mplatform = platform
    /\ mutex = [valid |-> 1, locked |-> 0]
    /\ mowner = 0
    /\ mdepth = 0
    /\ mpc = [t \in MThreads |-> "idle"]
    /\ mheld = [t \in MThreads |-> 0]
    /\ mop = [t \in MThreads |-> "none"]
    /\ mret = [t \in MThreads |-> OK]
    /\ mseen = [t \in MThreads |-> 0]

CThreads == 1..MaxCondThreads

\* memset(c, 0, sizeof(*c))
cond_zero == [handle |-> 0, valid |-> 0, is_broadcast |-> 0, waiters |-> 0]

\* fossil_threads_cond_init with malloc and pthread_cond_init succeeding
cond_init == [cond_zero EXCEPT !.handle = 1, !.valid = 1]

\* a cond that is initialised or still zero-filled, and an initialised, free mutex
CondInit(c) ==
    /\ cnd = c
    /\ cvmvalid = 1
    /\ cvowner = 0
    /\ cvpc = [t \in CThreads |-> "idle"]
    /\ cvtimed = [t \in CThreads |-> FALSE]
    /\ cvrc = [t \in CThreads |-> 0]
    /\ cvop = [t \in CThreads |-> "none"]
    /\ cvret = [t \in CThreads |-> OK]
    /\ cvseen = [t \in CThreads |-> {}]
    /\ cvops = 0

BThreads == 1..(IF MaxParties > MaxWaiters THEN MaxParties ELSE MaxWaiters)

(***************************************************************************)
(* Barrier (src/code/logic/barrier.c)                                      *)
(***************************************************************************)

\* fossil_threads_barrier_init(barrier, threshold, cyclic) with threshold >= 1
barrier_init(threshold) ==
    [threshold |-> threshold, count |-> 0, cycle |-> 0, destroyed |-> FALSE,
     mvalid |-> TRUE, cvalid |-> TRUE, waiters |-> 0]

\* memset(&barrier, 0, sizeof(barrier)): the mutex and the cond inside it
\* are zero-filled too, hence not valid
barrier_zero ==
    [threshold |-> 0, count |-> 0, cycle |-> 0, destroyed |-> FALSE,
     mvalid |-> FALSE, cvalid |-> FALSE, waiters |-> 0]

\* no call has been made on the barrier object b
BarrierStart(b) ==
    /\ barrier = b
    /\ bmutex = 0
    /\ bsleep = {}
    /\ bpc = [t \in BThreads |-> "idle"]
    /\ btimed = [t \in BThreads |-> FALSE]
    /\ bcycle = [t \in BThreads |-> 0]
    /\ bresult = [t \in BThreads |-> 0]
    /\ brc = [t \in BThreads |-> 0]
    /\ bret = [t \in BThreads |-> OK]
    /\ bcalls = [t \in BThreads |-> 0]
    /\ bretcount = [t \in BThreads |-> 0]
    /\ bctl = "idle"
    /\ bresets = 0
    /\ batdestroy = {}

BarrierInit == \E n \in 1..MaxParties : BarrierStart(barrier_init(n))

\* the barrier when nothing uses it
BarrierIdle ==
    /\ BarrierInit
    /\ barrier.threshold = 1
    /\ brounds = 0

\* every component but `c` is left in its initial state
OthersIdle(c) ==
    /\ IF c # "barrier" THEN BarrierIdle ELSE TRUE
    /\ IF c # "thread" THEN ThreadInit ELSE TRUE
    /\ IF c # "pool" THEN PoolIdle ELSE TRUE
    /\ IF c # "ghost" THEN GhostInit ELSE TRUE
    /\ IF c # "fiber" THEN FiberInit ELSE TRUE
    /\ IF c # "mutex" THEN MutexInit("posix") ELSE TRUE
    /\ IF c # "cond" THEN CondInit(cond_init) ELSE TRUE

\* fossil_threads_cond_broadcast: every thread blocked on the condition is
\* woken and has to reacquire the mutex; no effect on an invalid cond
cond_broadcast(pc, sleepers, cvalid) ==
    IF cvalid THEN [t \in BThreads |-> IF t \in sleepers THEN "reacq" ELSE pc[t]]
    ELSE pc

\* entry of barrier_wait / barrier_wait_timeout: the unlocked `destroyed` test
BCall(t, timed) ==
    /\ bpc[t] = "idle"
    /\ t \notin batdestroy
    /\ IF barrier.destroyed
       THEN /\ bret' = [bret EXCEPT ![t] = EINVAL]
            /\ bcalls' = [bcalls EXCEPT ![t] = @ + 1]
            /\ bretcount' = [bretcount EXCEPT ![t] = barrier.count]
            /\ UNCHANGED <<bpc, btimed>>
       ELSE /\ bpc' = [bpc EXCEPT ![t] = "lock"]
            /\ btimed' = [btimed EXCEPT ![t] = timed]
            /\ UNCHANGED <<bret, bcalls, bretcount>>
    /\ UNCHANGED <<barrier, bmutex, bsleep, bcycle, bresult, brc, bctl, bresets,
                   batdestroy, brounds>>
    /\ UNCHANGED BOthers

\* fossil_threads_mutex_lock(&barrier->mutex): EINVAL without locking when
\* the mutex is not valid, the caller goes on regardless
BLock(t) ==
    /\ bpc[t] = "lock"
    /\ IF barrier.mvalid
       THEN bmutex = 0 /\ bmutex' = t
       ELSE bmutex' = bmutex
    /\ bpc' = [bpc EXCEPT ![t] = "arrive"]
    /\ UNCHANGED <<barrier, bsleep, btimed, bcycle, bresult, brc, bret, bcalls,
                   bretcount, bctl, bresets, batdestroy, brounds>>
    /\ UNCHANGED BOthers

\* a release that advances the generation and leaves the arrivals counted
barrier_release_keepcount(b) == [b EXCEPT !.cycle = @ + 1]

\* a release that skips a generation
barrier_release_skip(b) == [b EXCEPT !.cycle = @ + 2, !.count = 0]

\* the threshold-th arrival: barrier->cycle++; barrier->count = 0;
barrier_release(b) == [b EXCEPT !.cycle = @ + 1, !.count = 0]

\* size_t cycle = barrier->cycle; if (++barrier->count == barrier->threshold) {...}
BArrive(t) ==
    /\ bpc[t] = "arrive"
    /\ bcycle' = [bcycle EXCEPT ![t] = barrier.cycle]
    /\ IF barrier.count + 1 = barrier.threshold
       THEN /\ barrier' = barrier_release(barrier)
            /\ bpc' = [cond_broadcast(bpc, bsleep, barrier.cvalid) EXCEPT ![t] = "unlock"]
            /\ bsleep' = IF barrier.cvalid THEN {} ELSE bsleep
            /\ brc' = [u \in BThreads |->
                          IF u \in bsleep /\ barrier.cvalid THEN OK ELSE brc[u]]
       ELSE /\ barrier' = [barrier EXCEPT !.count = @ + 1]
            /\ bpc' = [bpc EXCEPT ![t] = "check"]
            /\ UNCHANGED <<bsleep, brc>>
    /\ UNCHANGED <<bmutex, btimed, bresult, bret, bcalls, bretcount, bctl,
                   bresets, batdestroy, brounds>>
    /\ UNCHANGED BOthers

\* while (cycle == barrier->cycle [&& result == 0])
BCheck(t) ==
    /\ bpc[t] = "check"
    /\ bpc' = [bpc EXCEPT ![t] =
                 IF bcycle[t] = barrier.cycle /\ (btimed[t] => bresult[t] = 0)
                 THEN "cwait" ELSE "unlock"]
    /\ UNCHANGED <<barrier, bmutex, bsleep, btimed, bcycle, bresult, brc, bret,
                   bcalls, bretcount, bctl, bresets, batdestroy, brounds>>
    /\ UNCHANGED BOthers

\* fossil_threads_cond_wait / fossil_threads_cond_timedwait up to the point
\* where the caller is suspended and the mutex released
BCondWait(t) ==
    /\ bpc[t] = "cwait"
    /\ IF barrier.cvalid /\ barrier.mvalid
       THEN /\ barrier' = [barrier EXCEPT !.waiters = @ + 1]
            /\ bmutex' = IF bmutex = t THEN 0 ELSE bmutex
            /\ bsleep' = bsleep \cup {t}
            /\ bpc' = [bpc EXCEPT ![t] = "sleep"]
            /\ UNCHANGED bresult
       ELSE /\ bresult' = [bresult EXCEPT ![t] = EINVAL]
            /\ bpc' = [bpc EXCEPT ![t] = "check"]
            /\ UNCHANGED <<barrier, bmutex, bsleep>>
    /\ UNCHANGED <<btimed, bcycle, brc, bret, bcalls, bretcount, bctl, bresets,
                   batdestroy, brounds>>
    /\ UNCHANGED BOthers

\* pthread_cond_wait may wake up without a signal
BSpurious(t) ==
    /\ bpc[t] = "sleep"
    /\ t \in bsleep
    /\ bsleep' = bsleep \ {t}
    /\ brc' = [brc EXCEPT ![t] = OK]
    /\ bpc' = [bpc EXCEPT ![t] = "reacq"]
    /\ UNCHANGED <<barrier, bmutex, btimed, bcycle, bresult, bret, bcalls,
                   bretcount, bctl, bresets, batdestroy, brounds>>
    /\ UNCHANGED BOthers

\* pthread_cond_timedwait: the deadline passes
BTimeout(t) ==
    /\ bpc[t] = "sleep"
    /\ t \in bsleep
    /\ btimed[t]
    /\ bsleep' = bsleep \ {t}
    /\ brc' = [brc EXCEPT ![t] = ETIMEDOUT]
    /\ bpc' = [bpc EXCEPT ![t] = "reacq"]
    /\ UNCHANGED <<barrier, bmutex, btimed, bcycle, bresult, bret, bcalls,
                   bretcount, bctl, bresets, batdestroy, brounds>>
    /\ UNCHANGED BOthers

\* the woken waiter reacquires the mutex, c->waiters--, and the wait returns
BReacquire(t) ==
    /\ bpc[t] = "reacq"
    /\ barrier.mvalid
    /\ bmutex = 0
    /\ bmutex' = t
    /\ barrier' = [barrier EXCEPT !.waiters = @ - 1]
    /\ bresult' = [bresult EXCEPT ![t] = brc[t]]
    /\ bpc' = [bpc EXCEPT ![t] = "check"]
    /\ UNCHANGED <<bsleep, btimed, bcycle, brc, bret, bcalls, bretcount, bctl,
                   bresets, batdestroy, brounds>>
    /\ UNCHANGED BOthers

\* fossil_threads_mutex_unlock(&barrier->mutex); return 0 / return result
BUnlock(t) ==
    /\ bpc[t] = "unlock"
    /\ bmutex' = IF barrier.mvalid /\ bmutex = t THEN 0 ELSE bmutex
    /\ bret' = [bret EXCEPT ![t] = IF btimed[t] THEN bresult[t] ELSE OK]
    /\ bcalls' = [bcalls EXCEPT ![t] = @ + 1]
    /\ bretcount' = [bretcount EXCEPT ![t] = barrier.count]
    /\ bpc' = [bpc EXCEPT ![t] = "idle"]
    /\ btimed' = [btimed EXCEPT ![t] = FALSE]
    /\ bcycle' = [bcycle EXCEPT ![t] = 0]
    /\ bresult' = [bresult EXCEPT ![t] = 0]
    /\ brc' = [brc EXCEPT ![t] = 0]
    /\ UNCHANGED <<barrier, bsleep, bctl, bresets, batdestroy, brounds>>
    /\ UNCHANGED BOthers

\* pthread_cond_wait returning on a mutex that barrier_destroy has already
\* destroyed and freed is undefined: the waiter may hang for good (this step
\* is never taken) or come back as if it had the mutex
BReacquireDestroyed(t) ==
    /\ bpc[t] = "reacq"
    /\ ~barrier.mvalid
    /\ barrier' = [barrier EXCEPT !.waiters = @ - 1]
    /\ bresult' = [bresult EXCEPT ![t] = brc[t]]
    /\ bpc' = [bpc EXCEPT ![t] = "check"]
    /\ UNCHANGED <<bmutex, bsleep, btimed, bcycle, brc, bret, bcalls, bretcount,
                   bctl, bresets, batdestroy, brounds>>
    /\ UNCHANGED BOthers

\* a reset that clears the arrivals and leaves the generation alone
barrier_reset_keepcycle(b) == [b EXCEPT !.count = 0]

\* fossil_threads_barrier_reset: lock; count = 0; cycle++; broadcast; unlock
\* (one critical section; unprotected once the mutex is no longer valid)
barrier_reset(b) == [b EXCEPT !.count = 0, !.cycle = @ + 1]

BReset ==
    /\ bresets < MaxResets
    /\ barrier.mvalid => bmutex = 0
    /\ barrier' = barrier_reset(barrier)
    /\ bpc' = cond_broadcast(bpc, bsleep, barrier.cvalid)
    /\ bsleep' = IF barrier.cvalid THEN {} ELSE bsleep
    /\ brc' = [u \in BThreads |->
                  IF u \in bsleep /\ barrier.cvalid THEN OK ELSE brc[u]]
    /\ bresets' = bresets + 1
    /\ UNCHANGED <<bmutex, btimed, bcycle, bresult, bret, bcalls, bretcount,
                   bctl, batdestroy, brounds>>
    /\ UNCHANGED BOthers

\* fossil_threads_barrier_destroy, first critical section:
\* lock; destroyed = true; broadcast; unlock
BDestroyFlag ==
    /\ bctl = "idle"
    /\ bmutex = 0
    /\ barrier' = [barrier EXCEPT !.destroyed = TRUE]
    /\ batdestroy' = bsleep
    /\ bpc' = cond_broadcast(bpc, bsleep, barrier.cvalid)
    /\ bsleep' = {}
    /\ brc' = [u \in BThreads |-> IF u \in bsleep THEN OK ELSE brc[u]]
    /\ bctl' = "cond_dispose"
    /\ UNCHANGED <<bmutex, btimed, bcycle, bresult, bret, bcalls, bretcount,
                   bresets, brounds>>
    /\ UNCHANGED BOthers

\* fossil_threads_cond_dispose(&barrier->cond): destroy, free, zero
BDestroyCond ==
    /\ bctl = "cond_dispose"
    /\ barrier' = [barrier EXCEPT !.cvalid = FALSE, !.waiters = 0]
    /\ bctl' = "mutex_dispose"
    /\ UNCHANGED <<bmutex, bsleep, bpc, btimed, bcycle, bresult, brc, bret,
                   bcalls, bretcount, bresets, batdestroy, brounds>>
    /\ UNCHANGED BOthers

\* fossil_threads_mutex_dispose(&barrier->mutex): destroy, free, zero
BDestroyMutex ==
    /\ bctl = "mutex_dispose"
    /\ barrier' = [barrier EXCEPT !.mvalid = FALSE]
    /\ bmutex' = 0
    /\ bctl' = "done"
    /\ UNCHANGED <<bsleep, bpc, btimed, bcycle, bresult, brc, bret, bcalls,
                   bretcount, bresets, batdestroy, brounds>>
    /\ UNCHANGED BOthers

RECURSIVE SumCalls(_)
SumCalls(S) ==
    IF S = {} THEN 0
    ELSE LET t == CHOOSE u \in S : TRUE
         IN bcalls[t] + (IF bpc[t] = "idle" THEN 0 ELSE 1) + SumCalls(S \ {t})

\* calls to barrier_wait / barrier_wait_timeout made so far, by all threads
BCallsMade == SumCalls(BThreads)

BWait(t) == BCallsMade < MaxCalls /\ BCall(t, FALSE)

BWaitTimeout(t) == BCallsMade < MaxCalls /\ BCall(t, TRUE)

InitBarrier ==
    /\ BarrierInit
    /\ OthersIdle("barrier")
    /\ brounds = 0

NextBarrierDestroy ==
    \/ \E t \in 1..MaxWaiters :
        \/ BWait(t)
        \/ BWaitTimeout(t)
        \/ BLock(t)
        \/ BArrive(t)
        \/ BCheck(t)
        \/ BCondWait(t)
        \/ BSpurious(t)
        \/ BTimeout(t)
        \/ BReacquire(t)
        \/ BReacquireDestroyed(t)
        \/ BUnlock(t)
    \/ BDestroyFlag
    \/ BDestroyCond
    \/ BDestroyMutex

\* waits and timed waits racing with one barrier_destroy
SpecBarrierDestroy == InitBarrier /\ [][NextBarrierDestroy]_vars

\* C4: a thread that was blocked in barrier_wait / barrier_wait_timeout when
\* barrier_destroy was called returns INVALID_ARG (EINVAL) from that call,
\* never OK or TIMEOUT.
C4_DestroyedWaitersGetEINVAL ==
    \A t \in batdestroy : bpc[t] = "idle" => bret[t] = EINVAL

NextBarrierLive ==
    \/ \E t \in 1..MaxWaiters :
        \/ BWait(t)
        \/ BWaitTimeout(t)
        \/ BLock(t)
        \/ BArrive(t)
        \/ BCheck(t)
        \/ BCondWait(t)
        \/ BSpurious(t)
        \/ BTimeout(t)
        \/ BReacquire(t)
        \/ BUnlock(t)
    \/ BReset

\* waits, timed waits and reset on a barrier that is not destroyed
SpecBarrier == InitBarrier /\ [][NextBarrierLive]_vars

\* C37: when barrier_wait_timeout returns TIMEOUT the caller's arrival is
\* withdrawn, i.e. count is back to the value it had before the call. Stated
\* for the first call made on the barrier, with no other thread inside a
\* call and no reset: count was 0 before the call and is 0 after it.
C37_TimeoutWithdrawsArrival ==
    [][\A t \in BThreads :
        (/\ bcalls'[t] = bcalls[t] + 1
         /\ bret'[t] = ETIMEDOUT
         /\ bresets = 0
         /\ \A u \in BThreads : bcalls[u] = 0 /\ (u # t => bpc[u] = "idle")
         /\ BUnlock(t)) =>
            barrier'.count = 0]_vars

\* C31: on an initialised barrier that is not destroyed, whenever the mutex
\* is not held 0 <= count < threshold; the generation changes only by +1,
\* and only on the threshold-th arrival of a generation or on barrier_reset.
C31_CountAndGenerationInvariant ==
    [][/\ bmutex = 0 => (0 <= barrier.count /\ barrier.count < barrier.threshold)
       /\ bmutex' = 0 => (0 <= barrier'.count /\ barrier'.count < barrier'.threshold)
       /\ barrier'.cycle # barrier.cycle =>
            /\ barrier'.cycle = barrier.cycle + 1
            /\ \/ BReset
               \/ \E t \in BThreads :
                    BArrive(t) /\ barrier.count + 1 = barrier.threshold]_vars

\* the generation was advanced once by a reset and once by the second of
\* two arrivals, and every caller has left the barrier
C31_Witness ==
    /\ barrier.cycle = 2
    /\ bresets = 1
    /\ bmutex = 0
    /\ barrier.count = 0
    /\ barrier.threshold = 2
    /\ \A t \in BThreads : bpc[t] = "idle"

(***************************************************************************)
(* barrier_destroy called on a zero-filled barrier, and called again       *)
(***************************************************************************)

\* barrier_destroy has returned; the controlling thread may call it again
BDestroyReturn ==
    /\ bctl = "done"
    /\ bctl' = "idle"
    /\ UNCHANGED <<barrier, bmutex, bsleep, bpc, btimed, bcycle, bresult, brc,
                   bret, bcalls, bretcount, bresets, batdestroy, brounds>>
    /\ UNCHANGED BOthers

InitBarrierDispose ==
    /\ \E b \in {barrier_zero} \cup {barrier_init(n) : n \in 1..MaxParties} :
          BarrierStart(b)
    /\ OthersIdle("barrier")
    /\ brounds = 0

NextBarrierDispose ==
    \/ NextBarrierDestroy
    \/ BDestroyReturn

SpecBarrierDispose == InitBarrierDispose /\ [][NextBarrierDispose]_vars

\* barrier_destroy has run to its end on the object: the flag is set and the
\* cond and the mutex inside it are disposed
BarrierDisposed(b) == b.destroyed /\ ~b.cvalid /\ ~b.mvalid

\* C30: disposal is idempotent.  For the barrier: every step of a
\* barrier_destroy call on a zero-filled barrier or on a barrier that was
\* destroyed before leaves the object exactly as it was.
C30_DisposeIdempotent ==
    [][((BDestroyFlag \/ BDestroyCond \/ BDestroyMutex)
            /\ (barrier = barrier_zero \/ BarrierDisposed(barrier)))
          => barrier' = barrier]_vars

(***************************************************************************)
(* Waits on a barrier that was zero-filled and never initialised, or NULL  *)
(***************************************************************************)

\* barrier_wait(NULL) / barrier_wait_timeout(NULL, ms)
BCallNull(t) ==
    /\ BCallsMade < MaxCalls
    /\ bpc[t] = "idle"
    /\ bret' = [bret EXCEPT ![t] = EINVAL]
    /\ bcalls' = [bcalls EXCEPT ![t] = @ + 1]
    /\ bretcount' = [bretcount EXCEPT ![t] = barrier.count]
    /\ UNCHANGED <<barrier, bmutex, bsleep, bpc, btimed, bcycle, bresult, brc,
                   bctl, bresets, batdestroy, brounds>>
    /\ UNCHANGED BOthers

InitBarrierZero ==
    /\ BarrierStart(barrier_zero)
    /\ OthersIdle("barrier")
    /\ brounds = 0

NextBarrierZero ==
    \E t \in BThreads :
        \/ BWait(t)
        \/ BWaitTimeout(t)
        \/ BCallNull(t)
        \/ BLock(t)
        \/ BArrive(t)
        \/ BCheck(t)
        \/ BCondWait(t)
        \/ BUnlock(t)

SpecBarrierZero == InitBarrierZero /\ [][NextBarrierZero]_vars

\* a thread inside a call is scheduled
BRuns(t) == BLock(t) \/ BArrive(t) \/ BCheck(t) \/ BCondWait(t) \/ BUnlock(t)

FairSpecBarrierZero == SpecBarrierZero /\ \A t \in BThreads : WF_vars(BRuns(t))

\* C17: barrier_wait and barrier_wait_timeout on a NULL or zero-filled
\* barrier return, and what they return is EINVAL.
C17_InvalidBarrierWaitReturns ==
    /\ [](\A t \in BThreads : (bpc[t] = "idle" /\ bcalls[t] > 0) => bret[t] = EINVAL)
    /\ \A t \in BThreads : (bpc[t] # "idle") ~> (bpc[t] = "idle")

\* C29: an operation that returns INVALID_ARG has no side effect.  On the
\* zero-filled barrier: once every call made so far has returned INVALID_ARG
\* and none is in progress, the barrier is still zero-filled (count 0).
C29_InvalidArgHasNoSideEffect ==
    (/\ \A t \in BThreads : bpc[t] = "idle"
     /\ \A t \in BThreads : bcalls[t] > 0 => bret[t] = EINVAL) =>
        barrier = barrier_zero

(***************************************************************************)
(* Waits, timed waits and reset under a fair scheduler                     *)
(***************************************************************************)

\* a thread contending for the mutex is not passed over forever
FairSpecBarrier ==
    SpecBarrier /\ \A t \in BThreads : SF_vars(BRuns(t) \/ BReacquire(t))

C19_TimeoutOnlyInSameGeneration ==
    [][\A t \in BThreads :
        (BUnlock(t) /\ btimed[t]) =>
            /\ bret'[t] = ETIMEDOUT => barrier.cycle = bcycle[t]
            /\ barrier.cycle # bcycle[t] => bret'[t] = OK]_vars

(***************************************************************************)
(* Cyclic use: threshold parties, each calling barrier_wait brounds times  *)
(***************************************************************************)
Parties == 1..barrier.threshold

BWaitCyc(t) ==
    /\ t \in Parties
    /\ bcalls[t] < brounds
    /\ BCall(t, FALSE)

InitCyc ==
    /\ BarrierInit
    /\ OthersIdle("barrier")
    /\ brounds \in 1..MaxRounds

NextCyc ==
    \E t \in BThreads :
        \/ BWaitCyc(t)
        \/ BLock(t)
        \/ BArrive(t)
        \/ BCheck(t)
        \/ BCondWait(t)
        \/ BSpurious(t)
        \/ BReacquire(t)
        \/ BUnlock(t)

SpecCyc == InitCyc /\ [][NextCyc]_vars

\* the scheduler runs every thread that can take a step of its call; a
\* thread contending for the mutex is not passed over forever
BProgress(t) ==
    BWaitCyc(t) \/ BLock(t) \/ BArrive(t) \/ BCheck(t) \/ BCondWait(t)
        \/ BReacquire(t) \/ BUnlock(t)

FairSpecCyc == SpecCyc /\ \A t \in BThreads : SF_vars(BProgress(t))

CycDone == \A t \in Parties : bcalls[t] = brounds /\ bpc[t] = "idle"

\* C1: with threshold N and N parties each calling barrier_wait k times, every
\* call that returns returns OK, the generation counts the completed rounds
\* (count + threshold * cycle is the number of arrivals), and eventually all
\* k*N calls have returned with cycle = k and count = 0: no call blocks forever.
C1_Safe ==
    /\ \A t \in Parties : bcalls[t] > 0 => bret[t] = OK
    /\ barrier.cycle <= brounds
    /\ CycDone => barrier.cycle = brounds /\ barrier.count = 0

C1_CyclicRendezvous == []C1_Safe /\ <>[]CycDone

C1_Witness ==
    /\ CycDone
    /\ barrier.threshold = MaxParties
    /\ brounds = MaxRounds
    /\ barrier.cycle = MaxRounds

\* C20: in cyclic use of a threshold-3 barrier by three threads, whenever a
\* barrier_wait returns to its caller the barrier's count is 0.
C20_CountZeroAtReturn ==
    barrier.threshold = 3 =>
        \A t \in Parties : bcalls[t] > 0 => bretcount[t] = 0

(***************************************************************************)
(* Thread (src/code/logic/thread.c, POSIX branch)                          *)
(***************************************************************************)

\* the clock as read when a thread starts and when it ends
StartTime == 1
EndTime == 2

\* the calling thread is between operations
TReturn(op, rc) ==
    /\ tpc' = "idle"
    /\ top' = op
    /\ tret' = rc

\* if (thread->started) return FOSSIL_THREADS_EBUSY, without the test
thread_create_check_none(t) == OK

\* fossil_threads_thread_create: the test before the record is zeroed
thread_create_check(t) == IF t.started # 0 THEN EBUSY ELSE OK

\* fossil_threads_thread_create up to and including pthread_create
TCreate ==
    /\ tpc = "idle"
    /\ IF thread_create_check(thr) # OK
       THEN /\ TReturn("create", thread_create_check(thr))
            /\ UNCHANGED <<thr, wpc, wcp, tcreated>>
       ELSE /\ tcreated < MaxCreates
            /\ thr' = thread_zero
            /\ tcreated' = tcreated + 1
            /\ wpc' = [wpc EXCEPT ![tcreated + 1] = "start"]
            /\ \E cp \in BOOLEAN : wcp' = [wcp EXCEPT ![tcreated + 1] = cp]
            /\ tpc' = "create_fill"
            /\ UNCHANGED <<top, tret>>
    /\ UNCHANGED <<wret, wcancel, tout>>
    /\ UNCHANGED <<tgot, tlife>>
    /\ UNCHANGED TOthers

\* fossil_threads_thread_create after pthread_create succeeded
TCreateFill ==
    /\ tpc = "create_fill"
    /\ thr' = [thr EXCEPT !.handle = tcreated, !.joinable = 1, !.started = 1,
                          !.id = tcreated, !.start_time_ns = StartTime]
    /\ TReturn("create", OK)
    /\ UNCHANGED <<wpc, wret, wcp, wcancel, tcreated, tout>>
    /\ tlife' = "started"
    /\ UNCHANGED tgot
    /\ UNCHANGED TOthers

\* fossil__thread_start: self->started = 1; start_time_ns = now
WStart(w) ==
    /\ wpc[w] = "start"
    /\ thr' = [thr EXCEPT !.started = 1, !.start_time_ns = StartTime]
    /\ wpc' = [wpc EXCEPT ![w] = "running"]
    /\ UNCHANGED <<wret, wcp, wcancel, tcreated, tpc, top, tret, tout>>
    /\ UNCHANGED <<tgot, tlife>>
    /\ UNCHANGED TOthers

\* ret = ctx->func(ctx->arg): the entry function returns some value
WEntryReturns(w) ==
    /\ wpc[w] = "running"
    /\ \E v \in RetVals : wret' = [wret EXCEPT ![w] = v]
    /\ wpc' = [wpc EXCEPT ![w] = "set_retval"]
    /\ UNCHANGED <<thr, wcp, wcancel, tcreated, tpc, top, tret, tout>>
    /\ UNCHANGED <<tgot, tlife>>
    /\ UNCHANGED TOthers

\* a pending pthread_cancel acts when the entry function reaches a
\* cancellation point: the thread ends without returning to the trampoline
WCancelled(w) ==
    /\ wpc[w] = "running"
    /\ wcancel[w]
    /\ wcp[w]
    /\ wpc' = [wpc EXCEPT ![w] = "cancelled"]
    /\ UNCHANGED <<thr, wret, wcp, wcancel, tcreated, tpc, top, tret, tout>>
    /\ UNCHANGED <<tgot, tlife>>
    /\ UNCHANGED TOthers

\* the trampoline's tail without self->retval = ret
trampoline_store_noretval(w, pc, t) ==
    CASE pc = "set_retval" -> t
      [] pc = "set_finished" -> [t EXCEPT !.finished = 1]
      [] pc = "set_end_time" -> [t EXCEPT !.end_time_ns = EndTime]
      [] pc = "set_exec_time" -> [t EXCEPT !.exec_time_ns = t.end_time_ns - t.start_time_ns]
      [] pc = "set_exit_code" -> [t EXCEPT !.exit_code = 0]

\* the stores of the trampoline's tail, one at a time
trampoline_store(w, pc, t) ==
    CASE pc = "set_retval" -> [t EXCEPT !.retval = wret[w]]
      [] pc = "set_finished" -> [t EXCEPT !.finished = 1]
      [] pc = "set_end_time" -> [t EXCEPT !.end_time_ns = EndTime]
      [] pc = "set_exec_time" -> [t EXCEPT !.exec_time_ns = t.end_time_ns - t.start_time_ns]
      [] pc = "set_exit_code" -> [t EXCEPT !.exit_code = 0]

trampoline_next(pc) ==
    CASE pc = "set_retval" -> "set_finished"
      [] pc = "set_finished" -> "set_end_time"
      [] pc = "set_end_time" -> "set_exec_time"
      [] pc = "set_exec_time" -> "set_exit_code"
      [] pc = "set_exit_code" -> "exited"

WStore(w) ==
    /\ wpc[w] \in {"set_retval", "set_finished", "set_end_time", "set_exec_time",
                   "set_exit_code"}
    /\ thr' = trampoline_store(w, wpc[w], thr)
    /\ wpc' = [wpc EXCEPT ![w] = trampoline_next(wpc[w])]
    /\ UNCHANGED <<wret, wcp, wcancel, tcreated, tpc, top, tret, tout>>
    /\ UNCHANGED <<tgot, tlife>>
    /\ UNCHANGED TOthers

\* the OS thread has ended, as pthread_join sees it
WEnded(w) == wpc[w] \in {"exited", "cancelled"}

\* the tests of thread_join without the one on joinable
thread_join_check_started(t) ==
    IF t.started = 0 THEN ENOTSTARTED
    ELSE IF t.handle = 0 THEN EINTERNAL
    ELSE OK

\* fossil_threads_thread_join: the tests before pthread_join
thread_join_check(t) ==
    IF t.started = 0 THEN ENOTSTARTED
    ELSE IF t.joinable = 0 THEN EDETACHED
    ELSE IF t.handle = 0 THEN EINTERNAL
    ELSE OK

TJoin ==
    /\ tpc = "idle"
    /\ IF thread_join_check(thr) # OK THEN TReturn("join", thread_join_check(thr))
       ELSE tpc' = "join_wait" /\ UNCHANGED <<top, tret>>
    /\ UNCHANGED <<thr, wpc, wret, wcp, wcancel, tcreated, tout>>
    /\ UNCHANGED <<tgot, tlife>>
    /\ UNCHANGED TOthers

\* pthread_join returns; *retval = ret ? ret : thread->retval; handle = NULL;
\* joinable = 0; finished = 1; end and exec time
TJoinDone ==
    /\ tpc = "join_wait"
    /\ WEnded(thr.handle)
    /\ LET ret == IF wpc[thr.handle] = "cancelled" THEN PTHREAD_CANCELED
                  ELSE wret[thr.handle]
       IN tout' = IF ret # 0 THEN ret ELSE thr.retval
    /\ thr' = [thr EXCEPT !.handle = 0, !.joinable = 0, !.finished = 1,
                          !.end_time_ns = EndTime,
                          !.exec_time_ns = EndTime - thr.start_time_ns]
    /\ TReturn("join", OK)
    /\ UNCHANGED <<wpc, wret, wcp, wcancel, tcreated>>
    /\ tlife' = "joined"
    /\ UNCHANGED tgot
    /\ UNCHANGED TOthers

\* fossil_threads_thread_detach
TDetach ==
    /\ tpc = "idle"
    /\ IF thr.started = 0 THEN TReturn("detach", EINVAL) /\ UNCHANGED thr
       ELSE IF thr.joinable = 0 THEN TReturn("detach", EDETACHED) /\ UNCHANGED thr
       ELSE IF thr.handle = 0 THEN TReturn("detach", EINTERNAL) /\ UNCHANGED thr
       ELSE /\ thr' = [thr EXCEPT !.handle = 0, !.joinable = 0]
            /\ TReturn("detach", OK)
    /\ tlife' = IF thr.started # 0 /\ thr.joinable # 0 /\ thr.handle # 0
                THEN "detached" ELSE tlife
    /\ UNCHANGED <<wpc, wret, wcp, wcancel, tcreated, tout, tgot>>
    /\ UNCHANGED TOthers

\* fossil_threads_thread_cancel
TCancel ==
    /\ tpc = "idle"
    /\ IF thr.started = 0
       THEN TReturn("cancel", ENOTSTARTED) /\ UNCHANGED <<thr, wcancel>>
       ELSE IF thr.finished # 0
       THEN TReturn("cancel", EFINISHED) /\ UNCHANGED <<thr, wcancel>>
       ELSE /\ thr' = [thr EXCEPT !.cancel_requested = 1]
            /\ IF thr.handle = 0
               THEN TReturn("cancel", EINTERNAL) /\ UNCHANGED wcancel
               ELSE /\ wcancel' = [wcancel EXCEPT ![thr.handle] = ~WEnded(thr.handle)]
                    /\ TReturn("cancel", OK)
    /\ UNCHANGED <<wpc, wret, wcp, tcreated, tout>>
    /\ UNCHANGED <<tgot, tlife>>
    /\ UNCHANGED TOthers

\* fossil_threads_thread_dispose: which way it waits
TDispose ==
    /\ tpc = "idle"
    /\ tpc' = IF thr.handle # 0
              THEN (IF thr.joinable # 0 THEN "dispose_join" ELSE "dispose_spin_handle")
              ELSE "dispose_spin"
    /\ UNCHANGED <<thr, wpc, wret, wcp, wcancel, tcreated, top, tret, tout>>
    /\ UNCHANGED <<tgot, tlife>>
    /\ UNCHANGED TOthers

\* pthread_join(*pth, &ret); free(pth); t->handle = NULL;
TDisposeJoin ==
    /\ tpc = "dispose_join"
    /\ WEnded(thr.handle)
    /\ thr' = [thr EXCEPT !.handle = 0]
    /\ tpc' = "dispose_zero"
    /\ UNCHANGED <<wpc, wret, wcp, wcancel, tcreated, top, tret, tout>>
    /\ UNCHANGED <<tgot, tlife>>
    /\ UNCHANGED TOthers

\* while (t->started && !t->finished) nanosleep(1ms); the loop is left
TDisposeSpin ==
    /\ tpc \in {"dispose_spin", "dispose_spin_handle"}
    /\ ~(thr.started # 0 /\ thr.finished = 0)
    /\ thr' = IF tpc = "dispose_spin_handle" THEN [thr EXCEPT !.handle = 0] ELSE thr
    /\ tpc' = "dispose_zero"
    /\ UNCHANGED <<wpc, wret, wcp, wcancel, tcreated, top, tret, tout>>
    /\ UNCHANGED <<tgot, tlife>>
    /\ UNCHANGED TOthers

\* the loop test holds: nanosleep(1ms)
TDisposeSleep ==
    /\ tpc \in {"dispose_spin", "dispose_spin_handle"}
    /\ thr.started # 0 /\ thr.finished = 0
    /\ tpc' = IF tpc = "dispose_spin" THEN "dispose_sleep" ELSE "dispose_sleep_handle"
    /\ UNCHANGED <<thr, wpc, wret, wcp, wcancel, tcreated, top, tret, tout>>
    /\ UNCHANGED <<tgot, tlife>>
    /\ UNCHANGED TOthers

\* nanosleep returns, the loop tests again
TDisposeWake ==
    /\ tpc \in {"dispose_sleep", "dispose_sleep_handle"}
    /\ tpc' = IF tpc = "dispose_sleep" THEN "dispose_spin" ELSE "dispose_spin_handle"
    /\ UNCHANGED <<thr, wpc, wret, wcp, wcancel, tcreated, top, tret, tout>>
    /\ UNCHANGED <<tgot, tlife>>
    /\ UNCHANGED TOthers

\* fossil__thread_zero(t); return
TDisposeZero ==
    /\ tpc = "dispose_zero"
    /\ thr' = thread_zero
    /\ TReturn("dispose", OK)
    /\ UNCHANGED <<wpc, wret, wcp, wcancel, tcreated, tout>>
    /\ tlife' = "new"
    /\ UNCHANGED tgot
    /\ UNCHANGED TOthers

\* fossil_threads_thread_get_retval
TGetRetval ==
    /\ tpc = "idle"
    /\ tgot' = IF thr.finished = 0 THEN 0 ELSE thr.retval
    /\ TReturn("get_retval", OK)
    /\ UNCHANGED <<thr, wpc, wret, wcp, wcancel, tcreated, tout, tlife>>
    /\ UNCHANGED TOthers

InitThread ==
    /\ ThreadInit
    /\ OthersIdle("thread")

NextThread ==
    \/ TCreate
    \/ TCreateFill
    \/ TJoin
    \/ TJoinDone
    \/ TDetach
    \/ TCancel
    \/ TDispose
    \/ TDisposeJoin
    \/ TDisposeSpin
    \/ TDisposeSleep
    \/ TDisposeWake
    \/ TDisposeZero
    \/ TGetRetval
    \/ \E w \in Workers :
        \/ WStart(w)
        \/ WEntryReturns(w)
        \/ WCancelled(w)
        \/ WStore(w)

SpecThread == InitThread /\ [][NextThread]_vars

\* C2: once thread_dispose has zeroed the record and returned, no worker
\* writes to it: until the caller's next operation the record stays all-zero.
C2_NoWriteAfterDispose ==
    (top = "dispose" /\ tpc = "idle") => thr = thread_zero

\* C8: thread_cancel on a started, unfinished thread is purely cooperative:
\* it returns OK and the target is never terminated, its entry function
\* always runs until it returns and the trampoline stores retval and finished.
C8_CancelIsCooperative ==
    /\ \A w \in Workers : wpc[w] # "cancelled"
    /\ (top = "cancel" /\ tpc = "idle" /\ thr.cancel_requested = 1) => tret = OK

\* C12: thread_create on a record whose started flag is set returns BUSY,
\* starts no OS thread and leaves the record as it was.
C12_CreateOnStartedIsBusy ==
    [][(TCreate /\ thr.started # 0) =>
            /\ tpc' = "idle" /\ top' = "create" /\ tret' = EBUSY
            /\ thr' = thr
            /\ wpc' = wpc /\ tcreated' = tcreated]_vars

\* thread_create has just returned BUSY on a joined record
C12_Witness ==
    /\ tpc = "idle" /\ top = "create" /\ tret = EBUSY
    /\ tlife = "joined" /\ thr.started = 1 /\ thr.finished = 1

C14_MisuseReturnsEPERM ==
    [][/\ (TJoin /\ tlife = "joined") => tret' = EPERM
       /\ (TDetach /\ tlife = "detached") => tret' = EPERM
       /\ (TCancel /\ thr.started = 0) => tret' = EPERM]_vars

\* the OS thread the record was last created for, and whether its entry
\* function returned
Joined == thr.id

EntryReturned(w) == wpc[w] \in {"set_retval", "set_finished", "set_end_time",
                                "set_exec_time", "set_exit_code", "exited"}

\* C15: after a successful join of a thread whose entry function returned v,
\* the out parameter holds v and thread_get_retval returns v; while finished
\* is not set thread_get_retval returns NULL.
C15_RetvalRoundTrip ==
    /\ (tpc = "idle" /\ top = "join" /\ tret = OK /\ EntryReturned(Joined))
            => tout = wret[Joined]
    /\ (tpc = "idle" /\ top = "get_retval" /\ tlife = "joined" /\ EntryReturned(Joined))
            => tgot = wret[Joined]
    /\ (tpc = "idle" /\ top = "get_retval" /\ thr.finished = 0) => tgot = 0

\* thread_get_retval after a join has returned the non-NULL value of the entry
C15_Witness ==
    /\ tpc = "idle" /\ top = "get_retval" /\ tlife = "joined"
    /\ EntryReturned(Joined) /\ wret[Joined] = 1 /\ tout = 1 /\ tgot = 1

\* a started OS thread is scheduled until it ends, and its entry function
\* returns if it is left running
WProgress(w) == WStart(w) \/ WEntryReturns(w) \/ WStore(w)

\* the thread inside thread_dispose is scheduled
TDisposeProgress ==
    TDisposeJoin \/ TDisposeSpin \/ TDisposeSleep \/ TDisposeWake \/ TDisposeZero

FairSpecThread ==
    /\ SpecThread
    /\ WF_vars(TDisposeProgress)
    /\ \A w \in Workers : WF_vars(WProgress(w))

InDispose == tpc \in {"dispose_join", "dispose_spin", "dispose_spin_handle",
                      "dispose_sleep", "dispose_sleep_handle", "dispose_zero"}

\* C16: every call of thread_dispose returns, whatever the lifecycle state
\* of the record, and when it has returned the record is all-zero.
C16_DisposeTerminates ==
    /\ InDispose ~> (tpc = "idle" /\ top = "dispose")
    /\ [][TDisposeZero => thr' = thread_zero]_vars

(***************************************************************************)
(* Thread pool (src/code/logic/thread.c, POSIX branch)                     *)
(***************************************************************************)

\* a variant of the signal that wakes nobody
pool_cond_signal_none(pcs) == {pcs}

\* pthread_cond_signal(&pool->tasks_cond): the worker positions after one
\* sleeper (if any) has been woken
pool_cond_signal(pcs) ==
    IF \E w \in PoolThreads : pcs[w] = "sleep"
    THEN {[pcs EXCEPT ![w] = "wake"] : w \in {x \in PoolThreads : pcs[x] = "sleep"}}
    ELSE {pcs}

\* pthread_cond_broadcast(&pool->tasks_cond)
pool_cond_broadcast(pcs) ==
    [w \in PoolThreads |-> IF pcs[w] = "sleep" THEN "wake" ELSE pcs[w]]

\* a variant of the dequeue that leaves tasks_head in place
pool_dequeue_keephead(p, nxt) ==
    [p EXCEPT !.tasks_count = @ - 1]

\* a variant of the dequeue that leaves tasks_tail alone
pool_dequeue_keeptail(p, nxt) ==
    [p EXCEPT !.tasks_head = nxt[p.tasks_head],
              !.tasks_count = @ - 1]

\* task = head; head = task->next; if (!head) tail = NULL; tasks_count--
pool_dequeue(p, nxt) ==
    [p EXCEPT !.tasks_head = nxt[p.tasks_head],
              !.tasks_tail = IF nxt[p.tasks_head] = 0 THEN 0 ELSE @,
              !.tasks_count = @ - 1]

\* a variant that puts the new node at the head of the list
pool_append_front(p, task) ==
    [p EXCEPT !.tasks_head = task,
              !.tasks_tail = task,
              !.tasks_count = @ + 1]

\* a variant of the linking that never writes tail->next
pool_link_none(p, nxt, task) == nxt

\* if (tail) tail->next = task; else head = task; tail = task; tasks_count++
pool_append(p, task) ==
    [p EXCEPT !.tasks_head = IF p.tasks_tail # 0 THEN @ ELSE task,
              !.tasks_tail = task,
              !.tasks_count = @ + 1]

\* if (tail) tail->next = task
pool_link(p, nxt, task) ==
    IF p.tasks_tail # 0 THEN [nxt EXCEPT ![p.tasks_tail] = task] ELSE nxt

\* the nodes pool_destroy's loop `while (task) { next = task->next; free(task) }`
\* visits, starting at node h, in at most `fuel` iterations
RECURSIVE pool_walk(_, _, _)
pool_walk(h, nxt, fuel) ==
    IF h = 0 \/ fuel = 0 THEN <<>>
    ELSE <<h>> \o pool_walk(nxt[h], nxt, fuel - 1)

\* how often node t occurs in the walk
pool_freed(walk, t) == Cardinality({i \in 1..Len(walk) : walk[i] = t})

\* the pool has been released by pool_destroy
PoolFreed == cop = "destroy"

\* fossil__pool_worker: pthread_mutex_lock at the top of the loop, or the
\* re-acquisition on the way out of pthread_cond_wait
PWorkerLock(w) ==
    /\ pw[w] \in {"lock", "wake"}
    /\ pmutex = {}
    /\ pmutex' = {w}
    /\ pw' = [pw EXCEPT ![w] = "check"]
    /\ UNCHANGED <<pool, pnext, pthreads, pwtask, spc, stask, sret, cpc, cop,
                   pjoin, palloc, paccepted, pexec, pdone, pdiscard, pwsnap>>
    /\ UNCHANGED <<porder, pdeq>>
    /\ UNCHANGED POthers

\* a variant of the worker's test that looks at stop only when the queue
\* is empty
PWorkerCheckQueueFirst(w) ==
    /\ pw[w] = "check"
    /\ pmutex' = {}
    /\ IF pool.tasks_head = 0 /\ pool.stop = 0
       THEN /\ pw' = [pw EXCEPT ![w] = "sleep"]
            /\ UNCHANGED <<pool, pwtask, pdeq>>
       ELSE IF pool.tasks_head = 0
       THEN /\ pw' = [pw EXCEPT ![w] = "exited"]
            /\ UNCHANGED <<pool, pwtask, pdeq>>
       ELSE /\ pwtask' = [pwtask EXCEPT ![w] = pool.tasks_head]
            /\ pool' = pool_dequeue(pool, pnext)
            /\ pw' = [pw EXCEPT ![w] = "run"]
            /\ pdeq' = Append(pdeq, pool.tasks_head)
    /\ UNCHANGED <<pnext, pthreads, spc, stask, sret, cpc, cop, pjoin, palloc,
                   paccepted, pexec, pdone, pdiscard, pwsnap, porder>>
    /\ UNCHANGED POthers

\* while (!head && !stop) cond_wait; if (stop) { unlock; break; }
\* task = head; dequeue; unlock
PWorkerCheck(w) ==
    /\ pw[w] = "check"
    /\ pmutex' = {}
    /\ IF pool.tasks_head = 0 /\ pool.stop = 0
       THEN /\ pw' = [pw EXCEPT ![w] = "sleep"]
            /\ UNCHANGED <<pool, pwtask, pdeq>>
       ELSE IF pool.stop # 0
       THEN /\ pw' = [pw EXCEPT ![w] = "exited"]
            /\ UNCHANGED <<pool, pwtask, pdeq>>
       ELSE /\ pwtask' = [pwtask EXCEPT ![w] = pool.tasks_head]
            /\ pool' = pool_dequeue(pool, pnext)
            /\ pw' = [pw EXCEPT ![w] = "run"]
            /\ pdeq' = Append(pdeq, pool.tasks_head)
    /\ UNCHANGED <<pnext, pthreads, spc, stask, sret, cpc, cop, pjoin, palloc,
                   paccepted, pexec, pdone, pdiscard, pwsnap, porder>>
    /\ UNCHANGED POthers

\* pthread_cond_wait may return without a signal
PWorkerSpurious(w) ==
    /\ pw[w] = "sleep"
    /\ pw' = [pw EXCEPT ![w] = "wake"]
    /\ UNCHANGED <<pool, pnext, pthreads, pmutex, pwtask, spc, stask, sret, cpc,
                   cop, pjoin, palloc, paccepted, pexec, pdone, pdiscard, pwsnap>>
    /\ UNCHANGED <<porder, pdeq>>
    /\ UNCHANGED POthers

\* if (task && task->func) task->func(task->arg): the call is made
PWorkerCall(w) ==
    /\ pw[w] = "run"
    /\ pexec' = [pexec EXCEPT ![pwtask[w]] = @ + 1]
    /\ pw' = [pw EXCEPT ![w] = "exec"]
    /\ UNCHANGED <<pool, pnext, pthreads, pmutex, pwtask, spc, stask, sret, cpc,
                   cop, pjoin, palloc, paccepted, pdone, pdiscard, pwsnap>>
    /\ UNCHANGED <<porder, pdeq>>
    /\ UNCHANGED POthers

\* the task function returns; free(task); back to the top of the loop
PWorkerTaskReturn(w) ==
    /\ pw[w] = "exec"
    /\ spc[w] = "idle"
    /\ pdone' = pdone \cup {pwtask[w]}
    /\ pwtask' = [pwtask EXCEPT ![w] = 0]
    /\ pw' = [pw EXCEPT ![w] = "lock"]
    /\ UNCHANGED <<pool, pnext, pthreads, pmutex, spc, stask, sret, cpc, cop,
                   pjoin, palloc, paccepted, pexec, pdiscard, pwsnap>>
    /\ UNCHANGED <<porder, pdeq>>
    /\ UNCHANGED POthers

\* who may call pool_submit: the client between its own operations while
\* the pool exists, or the task function running on a worker
MaySubmit(s) ==
    IF s = Client THEN cpc = "idle" /\ ~PoolFreed ELSE pw[s] = "exec"

\* fossil_threads_pool_submit: argument test and malloc of the node
PSubmitCall(s) ==
    /\ MaySubmit(s)
    /\ spc[s] = "idle"
    /\ \E func \in {0, 1} :
        IF func = 0
        THEN /\ sret' = [sret EXCEPT ![s] = EINVAL]
             /\ cop' = IF s = Client THEN "submit" ELSE cop
             /\ UNCHANGED <<palloc, stask, spc, pnext>>
        ELSE /\ palloc < MaxTasks
             /\ palloc' = palloc + 1
             /\ stask' = [stask EXCEPT ![s] = palloc + 1]
             /\ pnext' = [pnext EXCEPT ![palloc + 1] = 0]
             /\ spc' = [spc EXCEPT ![s] = "lock"]
             /\ UNCHANGED <<sret, cop>>
    /\ UNCHANGED <<pool, pthreads, pmutex, pw, pwtask, cpc, pjoin, paccepted,
                   pexec, pdone, pdiscard, pwsnap>>
    /\ UNCHANGED <<porder, pdeq>>
    /\ UNCHANGED POthers

\* pthread_mutex_lock(&pool->tasks_mutex)
PSubmitLock(s) ==
    /\ spc[s] = "lock"
    /\ pmutex = {}
    /\ pmutex' = {s}
    /\ spc' = [spc EXCEPT ![s] = "body"]
    /\ UNCHANGED <<pool, pnext, pthreads, pw, pwtask, stask, sret, cpc, cop,
                   pjoin, palloc, paccepted, pexec, pdone, pdiscard, pwsnap>>
    /\ UNCHANGED <<porder, pdeq>>
    /\ UNCHANGED POthers

\* if (stop) { unlock; free(task); return ECANCELLED; }
\* append; tasks_count++; signal; unlock; return OK
PSubmitBody(s) ==
    /\ spc[s] = "body"
    /\ pmutex' = {}
    /\ spc' = [spc EXCEPT ![s] = "idle"]
    /\ stask' = [stask EXCEPT ![s] = 0]
    /\ cop' = IF s = Client THEN "submit" ELSE cop
    /\ IF pool.stop # 0
       THEN /\ sret' = [sret EXCEPT ![s] = ECANCELLED]
            /\ UNCHANGED <<pool, pnext, pw, paccepted, porder>>
       ELSE /\ pnext' = pool_link(pool, pnext, stask[s])
            /\ pool' = pool_append(pool, stask[s])
            /\ pw' \in pool_cond_signal(pw)
            /\ paccepted' = paccepted \cup {stask[s]}
            /\ porder' = Append(porder, stask[s])
            /\ sret' = [sret EXCEPT ![s] = OK]
    /\ UNCHANGED <<pthreads, pwtask, cpc, pjoin, palloc, pexec, pdone,
                   pdiscard, pwsnap, pdeq>>
    /\ UNCHANGED POthers

\* fossil_threads_pool_wait is called
PWaitCall ==
    /\ cpc = "idle"
    /\ ~PoolFreed
    /\ spc[Client] = "idle"
    /\ cpc' = "wait_lock"
    /\ pwsnap' = paccepted
    /\ UNCHANGED <<pool, pnext, pthreads, pmutex, pw, pwtask, spc, stask, sret,
                   cop, pjoin, palloc, paccepted, pexec, pdone, pdiscard>>
    /\ UNCHANGED <<porder, pdeq>>
    /\ UNCHANGED POthers

\* pool_wait: pthread_mutex_lock
PWaitLock ==
    /\ cpc = "wait_lock"
    /\ pmutex = {}
    /\ pmutex' = {Client}
    /\ cpc' = "wait_check"
    /\ UNCHANGED <<pool, pnext, pthreads, pw, pwtask, spc, stask, sret, cop,
                   pjoin, palloc, paccepted, pexec, pdone, pdiscard, pwsnap>>
    /\ UNCHANGED <<porder, pdeq>>
    /\ UNCHANGED POthers

\* done = (tasks_count == 0); unlock; if (done) return OK; nanosleep; again
PWaitCheck ==
    /\ cpc = "wait_check"
    /\ pmutex' = {}
    /\ IF pool.tasks_count = 0
       THEN cpc' = "idle" /\ cop' = "wait"
       ELSE cpc' = "wait_lock" /\ UNCHANGED cop
    /\ UNCHANGED <<pool, pnext, pthreads, pw, pwtask, spc, stask, sret, pjoin,
                   palloc, paccepted, pexec, pdone, pdiscard, pwsnap>>
    /\ UNCHANGED <<porder, pdeq>>
    /\ UNCHANGED POthers

\* fossil_threads_pool_destroy is called: pthread_mutex_lock
PDestroyLock ==
    /\ cpc = "idle"
    /\ ~PoolFreed
    /\ spc[Client] = "idle"
    /\ pmutex = {}
    /\ pmutex' = {Client}
    /\ cpc' = "destroy_stop"
    /\ UNCHANGED <<pool, pnext, pthreads, pw, pwtask, spc, stask, sret, cop,
                   pjoin, palloc, paccepted, pexec, pdone, pdiscard, pwsnap>>
    /\ UNCHANGED <<porder, pdeq>>
    /\ UNCHANGED POthers

\* stop = 1; broadcast; unlock
PDestroyStop ==
    /\ cpc = "destroy_stop"
    /\ pool' = [pool EXCEPT !.stop = 1]
    /\ pw' = pool_cond_broadcast(pw)
    /\ pmutex' = {}
    /\ cpc' = "destroy_join"
    /\ pjoin' = 1
    /\ UNCHANGED <<pnext, pthreads, pwtask, spc, stask, sret, cop, palloc,
                   paccepted, pexec, pdone, pdiscard, pwsnap>>
    /\ UNCHANGED <<porder, pdeq>>
    /\ UNCHANGED POthers

\* fossil_threads_thread_join(&pool->threads[i], NULL): ENOTSTARTED at once
\* for a worker that was never started, else pthread_join
PDestroyJoin ==
    /\ cpc = "destroy_join"
    /\ pjoin <= pool.num_threads
    /\ pthreads[pjoin] # 0 => pw[pjoin] = "exited"
    /\ pjoin' = pjoin + 1
    /\ UNCHANGED <<pool, pnext, pthreads, pmutex, pw, pwtask, spc, stask, sret,
                   cpc, cop, palloc, paccepted, pexec, pdone, pdiscard, pwsnap>>
    /\ UNCHANGED <<porder, pdeq>>
    /\ UNCHANGED POthers

\* free the queued nodes; destroy mutex and cond; free(pool); return
PDestroyFree ==
    /\ cpc = "destroy_join"
    /\ pjoin > pool.num_threads
    /\ LET walk == pool_walk(pool.tasks_head, pnext, MaxTasks)
       IN pdiscard' = [t \in Tasks |-> pdiscard[t] + pool_freed(walk, t)]
    /\ cpc' = "idle"
    /\ cop' = "destroy"
    /\ UNCHANGED <<pool, pnext, pthreads, pmutex, pw, pwtask, spc, stask, sret,
                   pjoin, palloc, paccepted, pexec, pdone, pwsnap>>
    /\ UNCHANGED <<porder, pdeq>>
    /\ UNCHANGED POthers

InitPool ==
    /\ \E n \in 1..MaxPoolThreads : \E spawned \in SUBSET (1..n) :
          PoolInit(n, spawned)
    /\ OthersIdle("pool")

NextPool ==
    \/ PWaitCall
    \/ PWaitLock
    \/ PWaitCheck
    \/ PDestroyLock
    \/ PDestroyStop
    \/ PDestroyJoin
    \/ PDestroyFree
    \/ \E s \in Submitters :
        \/ PSubmitCall(s)
        \/ PSubmitLock(s)
        \/ PSubmitBody(s)
    \/ \E w \in PoolThreads :
        \/ PWorkerLock(w)
        \/ PWorkerCheck(w)
        \/ PWorkerSpurious(w)
        \/ PWorkerCall(w)
        \/ PWorkerTaskReturn(w)

SpecPool == InitPool /\ [][NextPool]_vars

\* C3: a task accepted by pool_submit is never executed twice and never both
\* executed and discarded; once pool_destroy has returned, every accepted
\* task was either executed exactly once (and its function has returned) or
\* discarded exactly once, and every worker that was started has left its loop.
C3_ExecutedOnceOrDiscarded ==
    /\ \A t \in Tasks :
        /\ pexec[t] + pdiscard[t] <= 1
        /\ pexec[t] + pdiscard[t] > 0 => t \in paccepted
    /\ PoolFreed =>
        /\ \A t \in paccepted :
            /\ pexec[t] + pdiscard[t] = 1
            /\ pexec[t] = 1 => t \in pdone
        /\ \A w \in PoolThreads : pw[w] \in {"exited", "none"}

\* pool_destroy has returned with one task executed and another discarded
C3_Witness ==
    /\ PoolFreed
    /\ \E t \in paccepted : pexec[t] = 1 /\ t \in pdone
    /\ \E t \in paccepted : pdiscard[t] = 1
    /\ \E w \in PoolThreads : pw[w] = "exited"

\* C7: when pool_wait returns OK, every task accepted before the call has
\* finished executing.
C7_WaitMeansFinished ==
    (cop = "wait" /\ cpc = "idle") => pwsnap \subseteq pdone

\* fossil_threads_pool_task_t list from tasks_head along the next pointers
PoolQueue(p, nxt) == pool_walk(p.tasks_head, nxt, MaxTasks)

\* C25: a pool_submit (non-NULL pool and function) that finds stop set
\* returns CANCELLED, appends nothing and leaves tasks_count and the queue
\* as they were; one that finds stop clear appends its node at the tail of
\* the queue, increments tasks_count and returns OK.  stop is never cleared,
\* so every submit after pool_destroy has set it finds it set.
C25_SubmitAfterStop ==
    [][/\ pool.stop # 0 => pool'.stop # 0
       /\ \A s \in Submitters :
            PSubmitBody(s) =>
                IF pool.stop # 0
                THEN /\ sret'[s] = ECANCELLED
                     /\ pool' = pool
                     /\ PoolQueue(pool', pnext') = PoolQueue(pool, pnext)
                ELSE /\ sret'[s] = OK
                     /\ PoolQueue(pool', pnext') =
                           Append(PoolQueue(pool, pnext), stask[s])
                     /\ pool'.tasks_tail = stask[s]
                     /\ pool'.tasks_count = pool.tasks_count + 1]_vars

\* a task function running on a worker called pool_submit after pool_destroy
\* had set stop and got CANCELLED, while an earlier submit had been accepted
C25_Witness ==
    /\ pool.stop # 0
    /\ paccepted # {}
    /\ \E s \in Submitters : sret[s] = ECANCELLED /\ spc[s] = "idle"

\* C26: the task nodes are dequeued in the order in which they were
\* appended: the sequence of dequeued nodes is a prefix of the sequence of
\* appended nodes, whatever the number of workers and the interleaving.
C26_FifoDequeue ==
    /\ Len(pdeq) <= Len(porder)
    /\ \A i \in 1..Len(pdeq) : pdeq[i] = porder[i]

\* two tasks were appended and then dequeued by two different workers, the
\* first appended first, before either task function was called
C26_Witness ==
    /\ Len(porder) = 2
    /\ pdeq = porder
    /\ \E w1, w2 \in PoolThreads :
          /\ w1 # w2
          /\ pw[w1] = "run" /\ pwtask[w1] = porder[1]
          /\ pw[w2] = "run" /\ pwtask[w2] = porder[2]

(***************************************************************************)
(* Ghost scheduler (src/code/logic/ghost.c)                                *)
(* A uint64_t is a tuple of 8 bytes, least significant first.              *)
(***************************************************************************)

\* strings are tuples of bytes: the ids "a", "b" and the tags "x", "y"
Ids == {<<97>>, <<98>>}
Tags == {<<120>>, <<121>>}

\* addresses of candidate payloads and of states written by a ghost's func
Ptrs == {1, 2}

\* (size_t)-1
SIZE_MAX == 0 - 1

\* strncpy(dst, src, n) of a NUL-terminated string into zeroed memory
strncpy(src, n) == IF Len(src) <= n THEN src ELSE SubSeq(src, 1, n)

\* a ^ b on bytes
RECURSIVE byte_xor(_, _)
byte_xor(a, b) ==
    IF a = 0 THEN b
    ELSE IF b = 0 THEN a
    ELSE ((a + b) % 2) + 2 * byte_xor(a \div 2, b \div 2)

word_xor(x, y) == [i \in 1..8 |-> byte_xor(x[i], y[i])]

\* bytes k..8 of x * 1099511628211 mod 2^64; 1099511628211 = 2^40 + 435
RECURSIVE word_mul_prime(_, _, _)
word_mul_prime(x, k, carry) ==
    IF k > 8 THEN <<>>
    ELSE LET v == x[k] * 435 + (IF k > 5 THEN x[k - 5] ELSE 0) + carry
         IN <<v % 256>> \o word_mul_prime(x, k + 1, v \div 256)

\* x % n for a small n, most significant byte first
RECURSIVE word_mod(_, _, _, _)
word_mod(x, n, k, acc) ==
    IF k = 0 THEN acc ELSE word_mod(x, n, k - 1, (acc * 256 + x[k]) % n)

\* 14695981039346656037 = 0xCBF29CE484222325
FNV_OFFSET == <<37, 35, 34, 132, 228, 156, 242, 203>>

\* 0xC0FFEE1234567890
COLLAPSE_SEED == <<144, 120, 86, 52, 18, 238, 255, 192>>

\* the 8 bytes of a size_t below 65536 (little endian)
size_bytes(n) == <<n % 256, (n \div 256) % 256, 0, 0, 0, 0, 0, 0>>

\* for (i < len) { h ^= p[i]; h *= 1099511628211; }
RECURSIVE fnv1a64_loop(_, _, _)
fnv1a64_loop(h, data, i) ==
    IF i > Len(data) THEN h
    ELSE LET round == word_mul_prime([h EXCEPT ![1] = byte_xor(@, data[i])], 1, 0)
         IN IF Len(round) = 8 THEN fnv1a64_loop(round, data, i + 1) ELSE round

\* fossil__fnv1a64
fnv1a64(data, seed) == fnv1a64_loop(word_xor(FNV_OFFSET, seed), data, 1)

\* fossil__hash_str_mix
hash_str_mix(acc, str) == fnv1a64(str, acc)

\* fossil__ledger_add_entry: the entry as it is handed out
ledger_new_entry ==
    [ghost_id |-> <<>>, step_index |-> 0, proposal_present |-> 0,
     proposal_candidate_count |-> 0, proposal_tags |-> <<>>,
     chosen_index |-> SIZE_MAX, state_snapshot |-> 0]

\* fossil__ledger_add_entry returns NULL
ledger_full(led) == Len(led) >= gcap

\* the state one run of the program holds, and the value of the last call
\* (alive: the process has not been killed by a fault inside the call)
GState(r) ==
    [gh |-> ghost[r], led |-> gledger[r], q |-> gqueue[r], rc |-> GHOST_OK,
     alive |-> TRUE]

\* fossil_threads_ghost_init: both counts to 0, both arrays zeroed
ghost_init(st) ==
    [st EXCEPT !.led = <<>>, !.q = <<>>, !.rc = GHOST_OK]

\* fossil_threads_ghost_create
ghost_create(st, g, id, func) ==
    LET G == [ghost_zero EXCEPT !.id = strncpy(id, 63), !.func = func]
        e == [ledger_new_entry EXCEPT !.ghost_id = strncpy(G.id, 64)]
    IN IF ledger_full(st.led)
       THEN [st EXCEPT !.gh[g] = G, !.rc = GHOST_EINTERNAL]
       ELSE [st EXCEPT !.gh[g] = G, !.led = Append(@, e), !.rc = GHOST_OK]

\* fossil_threads_ghost_propose_candidates; cands is the caller's array,
\* malloc_ok tells whether the malloc of the tag copy succeeds
ghost_propose(st, g, cands, malloc_ok) ==
    LET G == st.gh[g]
        n == Len(cands)
        G1 == [G EXCEPT !.candidates = cands, !.candidate_count = n]
        G2 == [G1 EXCEPT !.step_index = @ + 1]
        e == [ledger_new_entry EXCEPT
                 !.ghost_id = strncpy(G.id, 64),
                 !.step_index = G2.step_index,
                 !.proposal_present = IF malloc_ok THEN 1 ELSE 0,
                 !.proposal_candidate_count = n,
                 !.proposal_tags = IF malloc_ok
                                   THEN [i \in 1..n |-> strncpy(cands[i].tag, 63)]
                                   ELSE <<>>]
    IN IF n = 0 THEN [st EXCEPT !.rc = GHOST_EINVAL]
       ELSE IF ledger_full(st.led)
       THEN [st EXCEPT !.gh[g] = G1, !.rc = GHOST_EINTERNAL]
       ELSE [st EXCEPT !.gh[g] = G2, !.led = Append(@, e),
                       !.rc = IF malloc_ok THEN GHOST_OK ELSE GHOST_ENOMEM]

\* the backwards search of collapse_by_consensus: index of the most recent
\* entry of this id that carries a proposal, 0 if there is none
ledger_find(led, id) ==
    LET S == {i \in 1..Len(led) : led[i].ghost_id = id /\ led[i].proposal_present # 0}
    IN IF S = {} THEN 0 ELSE CHOOSE i \in S : \A j \in S : j <= i

RECURSIVE mix_tags(_, _, _, _)
mix_tags(seed, tags, i, n) ==
    IF i > n THEN seed
    ELSE LET mixed == hash_str_mix(seed, tags[i])
         IN IF Len(mixed) = 8 THEN mix_tags(mixed, tags, i + 1, n) ELSE mixed

\* the seed of collapse_by_consensus: ledger count, id, step index, tags
collapse_seed(entry, lcount) ==
    LET s1 == fnv1a64(size_bytes(lcount), COLLAPSE_SEED)
        s2 == hash_str_mix(s1, entry.ghost_id)
        s3 == fnv1a64(size_bytes(entry.step_index), s2)
    IN mix_tags(s3, entry.proposal_tags, 1, entry.proposal_candidate_count)

\* a variant that also mixes the first candidate's data pointer into the seed
ghost_chosen_bydata(gobj, entry, lcount) ==
    word_mod(fnv1a64(size_bytes(gobj.candidates[1].data), collapse_seed(entry, lcount)),
             gobj.candidate_count, 8, 0)

\* chosen = seed % ghost->candidate_count
ghost_chosen(gobj, entry, lcount) ==
    word_mod(collapse_seed(entry, lcount), gobj.candidate_count, 8, 0)

\* the entry's tag array was freed and set to NULL by ghost_dispose while
\* the entry still counts tags: the loop over entry->proposal_tags[i] reads
\* through a NULL pointer
tags_freed(entry) ==
    entry.proposal_candidate_count > 0 /\ entry.proposal_tags = <<>>

\* a variant that leaves the candidate array attached to the ghost
ghost_collapse_keepcands(st, g) ==
    LET G == st.gh[g]
        found == ledger_find(st.led, G.id)
    IN IF G.candidate_count = 0 \/ found = 0
       THEN [st EXCEPT !.rc = GHOST_EINVAL]
       ELSE IF tags_freed(st.led[found])
       THEN [st EXCEPT !.alive = FALSE]
       ELSE LET chosen == ghost_chosen(G, st.led[found], Len(st.led))
                payload == G.candidates[chosen + 1].data
            IN [st EXCEPT
                  !.gh[g] = [G EXCEPT !.state = payload],
                  !.led[found] = [@ EXCEPT !.chosen_index = chosen,
                                           !.state_snapshot = payload],
                  !.rc = chosen]

\* fossil_threads_ghost_collapse_by_consensus
ghost_collapse(st, g) ==
    LET G == st.gh[g]
        found == ledger_find(st.led, G.id)
    IN IF G.candidate_count = 0 \/ found = 0
       THEN [st EXCEPT !.rc = GHOST_EINVAL]
       ELSE IF tags_freed(st.led[found])
       THEN [st EXCEPT !.alive = FALSE]
       ELSE LET chosen == ghost_chosen(G, st.led[found], Len(st.led))
                payload == G.candidates[chosen + 1].data
            IN [st EXCEPT
                  !.gh[g] = [G EXCEPT !.state = payload, !.candidates = <<>>,
                                      !.candidate_count = 0],
                  !.led[found] = [@ EXCEPT !.chosen_index = chosen,
                                           !.state_snapshot = payload],
                  !.rc = chosen]

\* a variant of ghost_step that records the state the ghost had before
ghost_step_oldstate(st, g, out) ==
    LET G == st.gh[g]
        G1 == [G EXCEPT !.state = IF G.func # 0 THEN out ELSE 0,
                        !.step_index = @ + 1]
        e == [ledger_new_entry EXCEPT !.ghost_id = strncpy(G.id, 64),
                                      !.step_index = G1.step_index,
                                      !.state_snapshot = G.state]
    IN IF G.finished # 0 THEN [st EXCEPT !.rc = GHOST_EINVAL]
       ELSE IF ledger_full(st.led)
       THEN [st EXCEPT !.gh[g] = G1, !.rc = GHOST_EINTERNAL]
       ELSE [st EXCEPT !.gh[g] = G1, !.led = Append(@, e), !.rc = GHOST_OK]

\* fossil_threads_ghost_step; out is what func stores through its out parameter
ghost_step(st, g, out) ==
    LET G == st.gh[g]
        G1 == [G EXCEPT !.state = IF G.func # 0 THEN out ELSE 0,
                        !.step_index = @ + 1]
        e == [ledger_new_entry EXCEPT !.ghost_id = strncpy(G.id, 64),
                                      !.step_index = G1.step_index,
                                      !.state_snapshot = G1.state]
    IN IF G.finished # 0 THEN [st EXCEPT !.rc = GHOST_EINVAL]
       ELSE IF ledger_full(st.led)
       THEN [st EXCEPT !.gh[g] = G1, !.rc = GHOST_EINTERNAL]
       ELSE [st EXCEPT !.gh[g] = G1, !.led = Append(@, e), !.rc = GHOST_OK]

\* fossil_threads_ghost_dispose: free and clear the tag copies of every
\* ledger entry of this id, then mark the ghost finished
ghost_dispose(st, g) ==
    LET G == st.gh[g]
    IN [st EXCEPT
          !.led = [i \in 1..Len(st.led) |->
                     IF st.led[i].ghost_id = strncpy(G.id, 64)
                     THEN [st.led[i] EXCEPT !.proposal_tags = <<>>]
                     ELSE st.led[i]],
          !.gh[g] = [G EXCEPT !.state = 0, !.func = 0, !.finished = 1,
                              !.candidate_count = 0, !.candidates = <<>>]]

\* a variant of ghost_queue_add without the test of the queue count
ghost_queue_add_nolimit(st, g) ==
    [st EXCEPT !.q = Append(@, g), !.rc = GHOST_OK]

\* fossil_threads_ghost_queue_add
ghost_queue_add(st, g) ==
    IF Len(st.q) >= MaxQueue
    THEN [st EXCEPT !.rc = GHOST_EBUSY]
    ELSE [st EXCEPT !.q = Append(@, g), !.rc = GHOST_OK]

\* one iteration of the loop of fossil_threads_ghost_schedule, on ghost g
schedule_visit(st, g, out) ==
    IF st.gh[g].finished # 0 THEN st
    ELSE IF st.gh[g].candidate_count > 0 THEN ghost_collapse(st, g)
    ELSE IF st.gh[g].func # 0 THEN ghost_step(st, g, out)
    ELSE st

\* a variant of the loop that walks the queue from its last entry down
RECURSIVE schedule_loop_backwards(_, _, _)
schedule_loop_backwards(st, i, out) ==
    IF i > Len(st.q) \/ ~st.alive THEN st
    ELSE schedule_loop_backwards(
             schedule_visit(st, st.q[Len(st.q) + 1 - i], out), i + 1, out)

\* the loop of fossil_threads_ghost_schedule from queue position i on
RECURSIVE schedule_loop(_, _, _)
schedule_loop(st, i, out) ==
    IF i > Len(st.q) \/ ~st.alive THEN st
    ELSE schedule_loop(schedule_visit(st, st.q[i], out), i + 1, out)

\* fossil_threads_ghost_schedule
ghost_schedule(st, out) ==
    IF Len(st.q) = 0 THEN [st EXCEPT !.rc = GHOST_EINVAL]
    ELSE [schedule_loop(st, 1, out) EXCEPT !.rc = GHOST_OK]

\* the candidate arrays a caller passes: up to MaxCands tags (none: count 0)
TagSeqs == UNION {[1..n -> Tags] : n \in 0..MaxCands}

\* the payload address of candidate i in the first run
FirstRunData(i) == i

\* both runs have made the same call; res[r] is run r's state after it
GApply(res) ==
    /\ ghost' = [r \in Runs |-> res[r].gh]
    /\ gledger' = [r \in Runs |-> res[r].led]
    /\ gqueue' = [r \in Runs |-> res[r].q]
    /\ gops' = IF \A r \in Runs : res[r].alive THEN gops + 1 ELSE gbudget
    /\ UNCHANGED <<gbudget, gcap>>

\* ghost_create(&g, id, func, arg) in both runs
GCreate(g, id, func) ==
    /\ gops < gbudget
    /\ GApply([r \in Runs |-> ghost_create(GState(r), g, id, func)])
    /\ gcreated' = gcreated \cup {g}
    /\ UNCHANGED grets
    /\ UNCHANGED GOthers

\* the candidate array of run r: the tags, and data pointers that are
\* data2 in the second run
GCands(r, tags, data2) ==
    [i \in 1..Len(tags) |->
        [tag |-> tags[i], data |-> IF r = 1 THEN FirstRunData(i) ELSE data2[i]]]

\* ghost_propose_candidates(&g, cands, n) in both runs: same tags, the data
\* pointers of the second run are data2
GPropose(g, tags, data2, malloc_ok) ==
    /\ gops < gbudget
    /\ g \in gcreated
    /\ GApply([r \in Runs |->
                 ghost_propose(GState(r), g, GCands(r, tags, data2), malloc_ok)])
    /\ UNCHANGED <<grets, gcreated>>
    /\ UNCHANGED GOthers

\* ghost_step(&g) in both runs; func stores out2 in the second run
GStep(g, out2) ==
    /\ gops < gbudget
    /\ g \in gcreated
    /\ GApply([r \in Runs |-> ghost_step(GState(r), g, IF r = 1 THEN 1 ELSE out2)])
    /\ UNCHANGED <<grets, gcreated>>
    /\ UNCHANGED GOthers

\* ghost_collapse_by_consensus(&g) in both runs
GCollapse(g) ==
    /\ gops < gbudget
    /\ g \in gcreated
    /\ LET res == [r \in Runs |-> ghost_collapse(GState(r), g)]
       IN /\ GApply(res)
          /\ grets' = [r \in Runs |->
                         IF res[r].alive THEN Append(grets[r], res[r].rc)
                         ELSE grets[r]]
    /\ UNCHANGED gcreated
    /\ UNCHANGED GOthers

\* ghost_dispose(&g) in both runs
GDispose(g) ==
    /\ gops < gbudget
    /\ g \in gcreated
    /\ GApply([r \in Runs |-> ghost_dispose(GState(r), g)])
    /\ UNCHANGED <<grets, gcreated>>
    /\ UNCHANGED GOthers

\* ghost_queue_add(&g) in both runs
GQueueAdd(g) ==
    /\ gops < gbudget
    /\ g \in gcreated
    /\ GApply([r \in Runs |-> ghost_queue_add(GState(r), g)])
    /\ UNCHANGED <<grets, gcreated>>
    /\ UNCHANGED GOthers

\* ghost_schedule() in both runs
GSchedule(out2) ==
    /\ gops < gbudget
    /\ GApply([r \in Runs |-> ghost_schedule(GState(r), IF r = 1 THEN 1 ELSE out2)])
    /\ UNCHANGED <<grets, gcreated>>
    /\ UNCHANGED GOthers

\* ghost_init() in both runs
GInit ==
    /\ gops < gbudget
    /\ GApply([r \in Runs |-> ghost_init(GState(r))])
    /\ UNCHANGED <<grets, gcreated>>
    /\ UNCHANGED GOthers

InitGhost ==
    /\ GhostInit
    /\ OthersIdle("ghost")

NextGhost ==
    \/ \E g \in Ghosts :
        \/ \E id \in Ids, func \in {0, 1} : GCreate(g, id, func)
        \/ \E tags \in TagSeqs : \E data2 \in [1..Len(tags) -> Ptrs] :
              \E malloc_ok \in BOOLEAN : GPropose(g, tags, data2, malloc_ok)
        \/ \E out2 \in Ptrs : GStep(g, out2)
        \/ GCollapse(g)
        \/ GQueueAdd(g)
        \/ GDispose(g)
    \/ \E out2 \in Ptrs : GSchedule(out2)

SpecGhost == InitGhost /\ [][NextGhost]_vars

\* what the claim compares of a ledger: per entry the id, the step index,
\* the proposal (present, count, tags) and the chosen index
LedgerView(r) ==
    [i \in 1..Len(gledger[r]) |->
        <<gledger[r][i].ghost_id, gledger[r][i].step_index,
          gledger[r][i].proposal_present, gledger[r][i].proposal_candidate_count,
          gledger[r][i].proposal_tags, gledger[r][i].chosen_index>>]

\* C5: two runs that make the same calls with the same ids and tags have the
\* same ledger (ids, step indexes, proposal tags, chosen indexes) and the
\* same collapse_by_consensus return values, whatever the data pointers are.
C5_GhostDeterminism ==
    /\ LedgerView(1) = LedgerView(2)
    /\ grets[1] = grets[2]

\* both runs collapsed a two-candidate proposal onto index 1 and installed
\* different data pointers
C5_Witness ==
    \E g \in Ghosts :
        /\ grets[1] # <<>>
        /\ grets[1][Len(grets[1])] = 1
        /\ ghost[1][g].state # ghost[2][g].state
        /\ \E i \in 1..Len(gledger[1]) :
              /\ gledger[1][i].chosen_index = 1
              /\ gledger[1][i].state_snapshot # gledger[2][i].state_snapshot

CollapseFails(r, g) ==
    \/ ghost[r][g].candidate_count = 0
    \/ ledger_find(gledger[r], ghost[r][g].id) = 0

\* C23: collapse_by_consensus returns an index >= 0 (below the candidate
\* count) when it succeeds and a negative error code when it fails.
C23_CollapseReturnSign ==
    [][\A g \in Ghosts : \A r \in Runs :
        (grets' # grets /\ GCollapse(g)) =>
            LET rc == grets'[r][Len(grets'[r])]
            IN IF CollapseFails(r, g)
               THEN rc < 0
               ELSE rc >= 0 /\ rc < ghost[r][g].candidate_count]_vars

\* what ghost_step promises of run r's call on ghost g when func stores out:
\* the state is what func stored (NULL without a func), step_index is one
\* more, and the ledger is the old one followed by one entry without a
\* proposal that carries the id, the new step_index and the new state
StepDone(r, g, out) ==
    LET G == ghost[r][g]
        n == Len(gledger[r])
    IN /\ ghost'[r][g].state = (IF G.func # 0 THEN out ELSE 0)
       /\ ghost'[r][g].step_index = G.step_index + 1
       /\ Len(gledger'[r]) = n + 1
       /\ SubSeq(gledger'[r], 1, n) = gledger[r]
       /\ gledger'[r][n + 1].ghost_id = G.id
       /\ gledger'[r][n + 1].step_index = G.step_index + 1
       /\ gledger'[r][n + 1].proposal_present = 0
       /\ gledger'[r][n + 1].proposal_candidate_count = 0
       /\ gledger'[r][n + 1].state_snapshot = ghost'[r][g].state

\* what ghost_step promises on a finished ghost: INVALID_ARG, nothing changed
StepRejected(r, g, out) ==
    /\ ghost_step(GState(r), g, out).rc = GHOST_EINVAL
    /\ ghost'[r] = ghost[r]
    /\ gledger'[r] = gledger[r]

C24_LedgerFullLeavesGhost ==
    [][\A g \in Ghosts : \A r \in Runs :
        LET same == /\ ghost'[r][g].state = ghost[r][g].state
                    /\ ghost'[r][g].step_index = ghost[r][g].step_index
                    /\ ghost'[r][g].candidates = ghost[r][g].candidates
                    /\ ghost'[r][g].candidate_count = ghost[r][g].candidate_count
                    /\ gledger'[r] = gledger[r]
        IN ledger_full(gledger[r]) =>
             /\ \A out2 \in Ptrs :
                  GStep(g, out2) =>
                    /\ ghost_step(GState(r), g, out2).rc # GHOST_OK
                    /\ same
             /\ \A tags \in TagSeqs : \A data2 \in [1..Len(tags) -> Ptrs] :
                  \A malloc_ok \in BOOLEAN :
                    GPropose(g, tags, data2, malloc_ok) =>
                      /\ ghost_propose(GState(r), g, GCands(r, tags, data2),
                                       malloc_ok).rc # GHOST_OK
                      /\ same]_vars

(***************************************************************************)
(* One caller that gives every ghost its own id and makes a longer         *)
(* sequence of calls, identical in both runs                               *)
(***************************************************************************)

\* the unique id of ghost object g: "a" for the first, "b" for the second
GhostId(g) == IF g = 1 THEN <<97>> ELSE <<98>>

\* the payload addresses of the first run, used by both runs
SameData(tags) == [i \in 1..Len(tags) |-> FirstRunData(i)]

InitGhostSerial ==
    /\ GhostStart(MaxSerialOps)
    /\ OthersIdle("ghost")

NextGhostSerial ==
    \/ \E g \in Ghosts :
        \/ \E func \in {0, 1} : GCreate(g, GhostId(g), func)
        \/ \E tags \in TagSeqs : \E malloc_ok \in BOOLEAN :
              GPropose(g, tags, SameData(tags), malloc_ok)
        \/ GStep(g, 1)
        \/ GCollapse(g)
        \/ GQueueAdd(g)
        \/ GDispose(g)
    \/ GSchedule(1)

SpecGhostSerial == InitGhostSerial /\ [][NextGhostSerial]_vars

\* the ghost has no pending proposal: the ledger holds no proposal entry of
\* its id, or the most recent one has been collapsed already
NoPendingProposal(r, g) ==
    LET e == ledger_find(gledger[r], ghost[r][g].id)
    IN e = 0 \/ gledger[r][e].chosen_index # SIZE_MAX

\* C22: collapse_by_consensus on a ghost with no pending proposal returns
\* INVALID_ARG and leaves the ghost's state, its step_index and the ledger
\* unchanged, so that no proposal entry is collapsed twice.
C22_CollapseWithoutProposal ==
    [][\A g \in Ghosts : \A r \in Runs :
        (grets' # grets /\ NoPendingProposal(r, g) /\ GCollapse(g)) =>
            /\ grets'[r][Len(grets'[r])] = GHOST_EINVAL
            /\ ghost'[r][g].state = ghost[r][g].state
            /\ ghost'[r][g].step_index = ghost[r][g].step_index
            /\ gledger'[r] = gledger[r]]_vars

(***************************************************************************)
(* Fibers (src/code/logic/fiber.c, ucontext backend)                       *)
(***************************************************************************)

\* fossil_threads_fiber_create(&f, func, arg, 0), called by the running code
\* on a fiber object that holds no context
FCreate(f, func) ==
    /\ frun # 0
    /\ f # MainFiber
    /\ fib[f].handle = 0
    /\ IF func = 0
       THEN /\ fret' = FIBER_EINVAL
            /\ UNCHANGED <<fib, fctx, fcaller>>
       ELSE /\ fib' = [fib EXCEPT ![f] = [fiber_zero EXCEPT !.handle = 1]]
            /\ fctx' = [fctx EXCEPT ![f] = f]
            /\ fcaller' = [fcaller EXCEPT ![f] = 0]
            /\ fret' = FIBER_OK
    /\ UNCHANGED <<fcur, frun>>
    /\ UNCHANGED FOthers

\* fossil__swap_to(to), reached by fiber_resume and fiber_yield_to, called
\* by the running code on a fiber whose entry function has not returned
FSwap(to) ==
    /\ frun # 0
    /\ fib[to].finished = 0
    /\ IF fib[to].handle = 0
       THEN /\ fret' = FIBER_EINVAL
            /\ UNCHANGED <<fib, fctx, fcur, frun, fcaller>>
       ELSE LET from == fcur
                saved == from # 0 /\ fib[from].handle # 0
            IN /\ fib' = [fib EXCEPT ![to].uc_link = IF saved THEN from ELSE 0]
               /\ fcur' = to
               /\ fctx' = IF saved THEN [fctx EXCEPT ![from] = frun] ELSE fctx
               /\ frun' = IF saved /\ to = from THEN frun ELSE fctx[to]
               /\ fcaller' = [fcaller EXCEPT ![to] = frun]
               /\ fret' = FIBER_OK
    /\ UNCHANGED FOthers

\* fossil__posix_entry_trampoline: the entry function of the running fiber
\* returns; finished = 1; the context ends.  uc_link was NULL when
\* makecontext ran and is set only in fossil__swap_to: the successor is
\* either the context uc_link now points to or, where makecontext has
\* captured the NULL link, none (the thread exits)
FEntryReturn(f) ==
    /\ frun = f
    /\ f # MainFiber
    /\ fib[f].finished = 0
    /\ fib' = [fib EXCEPT ![f].finished = 1]
    /\ \E link_taken \in BOOLEAN :
          frun' = IF link_taken /\ fib[f].uc_link # 0 THEN fctx[fib[f].uc_link] ELSE 0
    /\ UNCHANGED <<fctx, fcur, fret, fcaller>>
    /\ UNCHANGED FOthers

\* fossil_threads_fiber_dispose(&f), called by the running code; freeing
\* the stack the caller runs on either goes unnoticed or ends the thread
FDispose(f) ==
    /\ frun # 0
    /\ IF fib[f].handle = 0 \/ fcur = f
       THEN UNCHANGED <<fib, fctx, frun>>
       ELSE /\ fib' = [fib EXCEPT ![f].handle = 0]
            /\ fctx' = [fctx EXCEPT ![f] = 0]
            /\ \E survives \in BOOLEAN :
                  frun' = IF f # frun \/ survives THEN frun ELSE 0
    /\ UNCHANGED <<fcur, fret, fcaller>>
    /\ UNCHANGED FOthers

InitFiber ==
    /\ FiberInit
    /\ OthersIdle("fiber")

NextFiber ==
    \E f \in Fibers :
        \/ \E func \in {0, 1} : FCreate(f, func)
        \/ FSwap(f)
        \/ FEntryReturn(f)
        \/ FDispose(f)

SpecFiber == InitFiber /\ [][NextFiber]_vars

\* C6: after init_self, fiber_current() is the fiber whose code is executing
\* on the OS thread: inside F's entry function, after F yielded back, and
\* after F's entry function returned to its resumer.
C6_CurrentIsExecuting ==
    frun # 0 => fcur = frun

\* C27: when the entry function of fiber F returns, F.finished is 1 and the
\* code that continues executing is that of the fiber which made the latest
\* resume/yield_to switch to F.
C27_ReturnToLastResumer ==
    [][\A f \in Fibers :
        FEntryReturn(f) =>
            /\ fib'[f].finished = 1
            /\ fcaller[f] # 0
            /\ frun' = fcaller[f]]_vars

\* C28: fiber_dispose on the fiber whose code is running changes nothing
\* (handle and stack stay, the caller goes on running); on another fiber
\* that has a handle it frees the context and stack and sets handle to
\* NULL; on a fiber without a handle (disposed before) it changes nothing.
C28_DisposeRunningRejected ==
    [][\A f \in Fibers :
        FDispose(f) =>
            IF f = frun \/ fib[f].handle = 0
            THEN fib' = fib /\ fctx' = fctx /\ frun' = frun
            ELSE /\ fib'[f].handle = 0
                 /\ fctx'[f] = 0
                 /\ frun' = frun]_vars

(***************************************************************************)
(* Mutex (src/code/logic/mutex.c)                                          *)
(* The POSIX branch uses a default pthread mutex, the Windows branch a     *)
(* CRITICAL_SECTION, which its owner may enter again.                      *)
(***************************************************************************)

\* a variant of the OS lock test that lets every thread in
os_lock_enters_always(t) == TRUE

\* pthread_mutex_lock / EnterCriticalSection lets thread t in
os_lock_enters(t) == mowner = 0

\* pthread_mutex_trylock returns 0 / TryEnterCriticalSection returns TRUE
os_trylock_enters(t) ==
    IF mplatform = "windows" THEN mowner \in {0, t} ELSE mowner = 0

\* return from a mutex operation
MReturn(t, op, rc) ==
    /\ mpc' = [mpc EXCEPT ![t] = "idle"]
    /\ mop' = [mop EXCEPT ![t] = op]
    /\ mret' = [mret EXCEPT ![t] = rc]

\* fossil_threads_mutex_lock: the valid test, then the thread waits in the
\* OS call; a thread does not lock a mutex it already holds
MLockCall(t) ==
    /\ mpc[t] = "idle"
    /\ mheld[t] = 0
    /\ IF mutex.valid = 0
       THEN MReturn(t, "lock", EINVAL)
       ELSE mpc' = [mpc EXCEPT ![t] = "lock_wait"] /\ UNCHANGED <<mop, mret>>
    /\ UNCHANGED <<mplatform, mutex, mowner, mdepth, mheld, mseen>>
    /\ UNCHANGED MOthers

\* pthread_mutex_lock / EnterCriticalSection returns
MLockEnter(t) ==
    /\ mpc[t] = "lock_wait"
    /\ os_lock_enters(t)
    /\ mowner' = t
    /\ mdepth' = 1
    /\ mpc' = [mpc EXCEPT ![t] = "lock_store"]
    /\ UNCHANGED <<mplatform, mutex, mheld, mop, mret, mseen>>
    /\ UNCHANGED MOthers

\* m->locked = 1; return OK  (after lock or trylock)
MLockStore(t) ==
    /\ mpc[t] \in {"lock_store", "try_store"}
    /\ mutex' = [mutex EXCEPT !.locked = 1]
    /\ mheld' = [mheld EXCEPT ![t] = @ + 1]
    /\ MReturn(t, IF mpc[t] = "try_store" THEN "trylock" ELSE "lock", OK)
    /\ UNCHANGED <<mplatform, mowner, mdepth, mseen>>
    /\ UNCHANGED MOthers

\* fossil_threads_mutex_trylock up to the return of the OS call
MTryCall(t) ==
    /\ mpc[t] = "idle"
    /\ mheld[t] < MaxDepth
    /\ mseen' = [mseen EXCEPT ![t] = mowner]
    /\ IF mutex.valid = 0
       THEN /\ MReturn(t, "trylock", EINVAL)
            /\ UNCHANGED <<mowner, mdepth>>
       ELSE IF os_trylock_enters(t)
       THEN /\ mowner' = t
            /\ mdepth' = mdepth + 1
            /\ mpc' = [mpc EXCEPT ![t] = "try_store"]
            /\ UNCHANGED <<mop, mret>>
       ELSE /\ MReturn(t, "trylock", EBUSY)
            /\ UNCHANGED <<mowner, mdepth>>
    /\ UNCHANGED <<mplatform, mutex, mheld>>
    /\ UNCHANGED MOthers

\* fossil_threads_mutex_unlock by a thread that holds the mutex, up to the
\* return of pthread_mutex_unlock / LeaveCriticalSection
MUnlockCall(t) ==
    /\ mpc[t] = "idle"
    /\ mheld[t] > 0
    /\ mheld' = [mheld EXCEPT ![t] = @ - 1]
    /\ IF mutex.valid = 0
       THEN /\ MReturn(t, "unlock", EINVAL)
            /\ UNCHANGED <<mowner, mdepth>>
       ELSE /\ mdepth' = mdepth - 1
            /\ mowner' = IF mdepth = 1 THEN 0 ELSE mowner
            /\ mpc' = [mpc EXCEPT ![t] = "unlock_store"]
            /\ UNCHANGED <<mop, mret>>
    /\ UNCHANGED <<mplatform, mutex, mseen>>
    /\ UNCHANGED MOthers

\* m->locked = 0; return OK
MUnlockStore(t) ==
    /\ mpc[t] = "unlock_store"
    /\ mutex' = [mutex EXCEPT !.locked = 0]
    /\ MReturn(t, "unlock", OK)
    /\ UNCHANGED <<mplatform, mowner, mdepth, mheld, mseen>>
    /\ UNCHANGED MOthers

InitMutex ==
    /\ \E platform \in {"posix", "windows"} : MutexInit(platform)
    /\ OthersIdle("mutex")

NextMutex ==
    \E t \in MThreads :
        \/ MLockCall(t)
        \/ MLockEnter(t)
        \/ MLockStore(t)
        \/ MTryCall(t)
        \/ MUnlockCall(t)
        \/ MUnlockStore(t)

SpecMutex == InitMutex /\ [][NextMutex]_vars

\* thread t is between a successful lock/trylock and its matching unlock
MInside(t) == mheld[t] > 0 \/ mpc[t] \in {"lock_store", "try_store"}

\* C9: at most one thread at a time is between a successful lock/trylock
\* and its matching unlock.
C9_MutualExclusion ==
    \A t, u \in MThreads : (MInside(t) /\ MInside(u)) => t = u

\* one thread is inside through lock while another, just refused by
\* trylock, waits in lock
C9_Witness ==
    \E t, u \in MThreads :
        /\ t # u
        /\ mheld[t] > 0 /\ mop[t] = "lock"
        /\ mpc[u] = "lock_wait" /\ mop[u] = "trylock" /\ mret[u] = EBUSY

\* C10: a trylock that has returned gave OK if no thread held the mutex
\* and BUSY, leaving the owner as it was, if some thread held it, the
\* caller included.
C10_TrylockBusyWhenHeld ==
    \A t \in MThreads :
        (mpc[t] = "idle" /\ mop[t] = "trylock") =>
            /\ mseen[t] = 0 => mret[t] = OK
            /\ mseen[t] # 0 => mret[t] = EBUSY

\* fossil_threads_mutex_is_locked
mutex_is_locked(m) == m.valid # 0 /\ m.locked # 0

\* C38: whenever no lock, trylock or unlock call is in progress on the
\* initialised mutex, mutex_is_locked returns true if and only if some
\* thread holds the mutex.
C38_IsLockedIffHeld ==
    (mutex.valid # 0 /\ \A t \in MThreads : mpc[t] = "idle") =>
        (mutex_is_locked(mutex) <=> mowner # 0)

(***************************************************************************)
(* Condition variable (src/code/logic/cond.c, POSIX branch)                *)
(* Callers follow the pthread protocol: a wait call is made by the thread  *)
(* that owns the mutex, unlock by the owner, lock by a thread that does    *)
(* not own it; the cond is not disposed while a wait call is in progress.  *)
(***************************************************************************)

\* return of a cond or mutex call made by thread t
CvReturn(t, op, rc) ==
    /\ cvop' = [cvop EXCEPT ![t] = op]
    /\ cvret' = [cvret EXCEPT ![t] = rc]

\* a thread other than the suspended ones has acquired the mutex
cv_note_acquire(t) ==
    [u \in CThreads |->
        IF u # t /\ cvpc[u] \in {"waiting", "woken"} THEN cvseen[u] \cup {t}
        ELSE cvseen[u]]

\* fossil_threads_mutex_lock on the mutex used with the cond
CvMutexLock(t) ==
    /\ cvops < MaxCondOps
    /\ cvpc[t] = "idle"
    /\ cvmvalid = 1
    /\ cvowner = 0
    /\ cvowner' = t
    /\ cvseen' = cv_note_acquire(t)
    /\ cvops' = cvops + 1
    /\ CvReturn(t, "lock", OK)
    /\ UNCHANGED <<cnd, cvmvalid, cvpc, cvtimed, cvrc>>
    /\ UNCHANGED COthers

\* fossil_threads_mutex_unlock by the owner
CvMutexUnlock(t) ==
    /\ cvops < MaxCondOps
    /\ cvpc[t] = "idle"
    /\ cvmvalid = 1
    /\ cvowner = t
    /\ cvowner' = 0
    /\ cvops' = cvops + 1
    /\ CvReturn(t, "unlock", OK)
    /\ UNCHANGED <<cnd, cvmvalid, cvpc, cvtimed, cvrc, cvseen>>
    /\ UNCHANGED COthers

\* fossil_threads_cond_wait / cond_timedwait up to the pthread call:
\* the validity test, then c->waiters++
CvWaitCall(t, timed) ==
    /\ cvops < MaxCondOps
    /\ cvpc[t] = "idle"
    /\ cvowner = t
    /\ cvops' = cvops + 1
    /\ cvtimed' = [cvtimed EXCEPT ![t] = timed]
    /\ cvseen' = [cvseen EXCEPT ![t] = {}]
    /\ IF cnd.valid = 0 \/ cvmvalid = 0
       THEN /\ CvReturn(t, IF timed THEN "timedwait" ELSE "wait", EINVAL)
            /\ UNCHANGED <<cnd, cvpc>>
       ELSE /\ cnd' = [cnd EXCEPT !.waiters = @ + 1]
            /\ cvpc' = [cvpc EXCEPT ![t] = "suspend"]
            /\ UNCHANGED <<cvop, cvret>>
    /\ UNCHANGED <<cvmvalid, cvowner, cvrc>>
    /\ UNCHANGED COthers

\* the owner of the mutex after pthread_cond_wait has put its caller to sleep
os_cond_wait_release_keeps(t) == t

os_cond_wait_release(t) == 0

\* pthread_cond_wait / pthread_cond_timedwait: release the mutex and sleep
CvSuspend(t) ==
    /\ cvpc[t] = "suspend"
    /\ cvowner' = os_cond_wait_release(t)
    /\ cvpc' = [cvpc EXCEPT ![t] = "waiting"]
    /\ UNCHANGED <<cnd, cvmvalid, cvtimed, cvrc, cvop, cvret, cvseen, cvops>>
    /\ UNCHANGED COthers

\* sleepers woken with result rc
cv_wake(S, rc) ==
    /\ cvpc' = [u \in CThreads |-> IF u \in S THEN "woken" ELSE cvpc[u]]
    /\ cvrc' = [u \in CThreads |-> IF u \in S THEN rc ELSE cvrc[u]]

\* a sleeper wakes without a signal
CvSpurious(t) ==
    /\ cvpc[t] = "waiting"
    /\ cv_wake({t}, 0)
    /\ UNCHANGED <<cnd, cvmvalid, cvowner, cvtimed, cvop, cvret, cvseen, cvops>>
    /\ UNCHANGED COthers

\* the deadline of a pthread_cond_timedwait passes
CvTimeout(t) ==
    /\ cvpc[t] = "waiting"
    /\ cvtimed[t]
    /\ cv_wake({t}, ETIMEDOUT)
    /\ UNCHANGED <<cnd, cvmvalid, cvowner, cvtimed, cvop, cvret, cvseen, cvops>>
    /\ UNCHANGED COthers

\* a woken sleeper takes the mutex again inside the pthread call
CvReacquire(t) ==
    /\ cvpc[t] = "woken"
    /\ cvowner = 0
    /\ cvowner' = t
    /\ cvpc' = [cvpc EXCEPT ![t] = "dec"]
    /\ UNCHANGED <<cnd, cvmvalid, cvtimed, cvrc, cvop, cvret, cvseen, cvops>>
    /\ UNCHANGED COthers

\* the rc chain after the pthread call
cond_wait_result(rc) ==
    IF rc = 0 THEN OK
    ELSE IF rc = ETIMEDOUT THEN ETIMEDOUT
    ELSE IF rc = EINVAL THEN EINVAL
    ELSE COND_EINTERNAL

\* a variant of the return that leaves c->waiters as it is
CvWaitReturnNoDec(t) ==
    /\ cvpc[t] = "dec"
    /\ cvpc' = [cvpc EXCEPT ![t] = "idle"]
    /\ CvReturn(t, IF cvtimed[t] THEN "timedwait" ELSE "wait", cond_wait_result(cvrc[t]))
    /\ UNCHANGED <<cnd, cvmvalid, cvowner, cvtimed, cvrc, cvseen, cvops>>
    /\ UNCHANGED COthers

\* c->waiters-- and the return
CvWaitReturn(t) ==
    /\ cvpc[t] = "dec"
    /\ cnd' = [cnd EXCEPT !.waiters = @ - 1]
    /\ cvpc' = [cvpc EXCEPT ![t] = "idle"]
    /\ CvReturn(t, IF cvtimed[t] THEN "timedwait" ELSE "wait", cond_wait_result(cvrc[t]))
    /\ UNCHANGED <<cvmvalid, cvowner, cvtimed, cvrc, cvseen, cvops>>
    /\ UNCHANGED COthers

Sleepers == {u \in CThreads : cvpc[u] = "waiting"}

\* fossil_threads_cond_signal: at least one sleeper, if there is any, wakes
CvSignal(t) ==
    /\ cvops < MaxCondOps
    /\ cvpc[t] = "idle"
    /\ cvops' = cvops + 1
    /\ IF cnd.valid = 0
       THEN /\ CvReturn(t, "signal", EINVAL)
            /\ UNCHANGED <<cnd, cvpc, cvrc>>
       ELSE /\ cnd' = [cnd EXCEPT !.is_broadcast = 0]
            /\ IF Sleepers = {} THEN UNCHANGED <<cvpc, cvrc>>
               ELSE \E u \in Sleepers : cv_wake({u}, 0)
            /\ CvReturn(t, "signal", OK)
    /\ UNCHANGED <<cvmvalid, cvowner, cvtimed, cvseen>>
    /\ UNCHANGED COthers

\* fossil_threads_cond_broadcast: every sleeper wakes
CvBroadcast(t) ==
    /\ cvops < MaxCondOps
    /\ cvpc[t] = "idle"
    /\ cvops' = cvops + 1
    /\ IF cnd.valid = 0
       THEN /\ CvReturn(t, "broadcast", EINVAL)
            /\ UNCHANGED <<cnd, cvpc, cvrc>>
       ELSE /\ cnd' = [cnd EXCEPT !.is_broadcast = 1]
            /\ cv_wake(Sleepers, 0)
            /\ CvReturn(t, "broadcast", OK)
    /\ UNCHANGED <<cvmvalid, cvowner, cvtimed, cvseen>>
    /\ UNCHANGED COthers

\* fossil_threads_cond_init on a cond that holds no handle
CvInit(t) ==
    /\ cvops < MaxCondOps
    /\ cvpc[t] = "idle"
    /\ cnd.handle = 0
    /\ cvops' = cvops + 1
    /\ cnd' = cond_init
    /\ CvReturn(t, "init", OK)
    /\ UNCHANGED <<cvmvalid, cvowner, cvpc, cvtimed, cvrc, cvseen>>
    /\ UNCHANGED COthers

\* fossil_threads_cond_dispose while no wait call is in progress
CvDispose(t) ==
    /\ cvops < MaxCondOps
    /\ \A u \in CThreads : cvpc[u] = "idle"
    /\ cvops' = cvops + 1
    /\ cnd' = IF cnd.valid = 0 THEN cnd ELSE cond_zero
    /\ CvReturn(t, "dispose", OK)
    /\ UNCHANGED <<cvmvalid, cvowner, cvpc, cvtimed, cvrc, cvseen>>
    /\ UNCHANGED COthers

InitCond ==
    /\ \E c \in {cond_init, cond_zero} : CondInit(c)
    /\ OthersIdle("cond")

NextCond ==
    \/ \E t \in CThreads : CvMutexLock(t)
    \/ \E t \in CThreads : CvMutexUnlock(t)
    \/ \E t \in CThreads : \E timed \in BOOLEAN : CvWaitCall(t, timed)
    \/ \E t \in CThreads : CvSuspend(t)
    \/ \E t \in CThreads : CvSpurious(t)
    \/ \E t \in CThreads : CvTimeout(t)
    \/ \E t \in CThreads : CvReacquire(t)
    \/ \E t \in CThreads : CvWaitReturn(t)
    \/ \E t \in CThreads : CvSignal(t)
    \/ \E t \in CThreads : CvBroadcast(t)
    \/ \E t \in CThreads : CvInit(t)
    \/ \E t \in CThreads : CvDispose(t)

SpecCond == InitCond /\ [][NextCond]_vars

\* C11: a thread suspended in cond_wait or cond_timedwait does not own the
\* mutex (so another thread can take it), and a wait call that has just
\* returned OK or TIMEOUT left its caller owning the mutex again.
C11_WaitReleasesAndReacquires ==
    \A t \in CThreads :
        /\ cvpc[t] = "waiting" => cvowner # t
        /\ (cvpc[t] = "idle" /\ cvop[t] \in {"wait", "timedwait"}
                /\ cvret[t] \in {OK, ETIMEDOUT}) => cvowner = t

\* a cond_timedwait has returned TIMEOUT to a caller that owns the mutex,
\* after another thread had taken the mutex during the wait
C11_Witness ==
    \E t \in CThreads :
        /\ cvpc[t] = "idle" /\ cvop[t] = "timedwait" /\ cvret[t] = ETIMEDOUT
        /\ cvowner = t
        /\ cvseen[t] # {}


\* the task nodes that workers have taken from the queue
Dequeued == {pdeq[i] : i \in 1..Len(pdeq)}

C40_QueueWellFormed ==
    (pmutex = {} /\ ~PoolFreed) =>
        LET q == PoolQueue(pool, pnext)
        IN /\ pool.tasks_count = Len(q)
           /\ \A i, j \in 1..Len(q) : q[i] = q[j] => i = j
           /\ (pool.tasks_head = 0) = (pool.tasks_tail = 0)
           /\ (pool.tasks_head = 0) = (pool.tasks_count = 0)
           /\ pool.tasks_head # 0 =>
                /\ q[Len(q)] = pool.tasks_tail
                /\ pnext[pool.tasks_tail] = 0

\* two nodes are queued behind each other, a third submit is not possible,
\* the mutex is free, and one node is taken by a worker in the next step
C40_Witness ==
    /\ pmutex = {}
    /\ ~PoolFreed
    /\ pool.tasks_count = 2
    /\ pool.tasks_head # pool.tasks_tail
    /\ pnext[pool.tasks_head] = pool.tasks_tail
    /\ \E w \in PoolThreads : pw[w] = "lock"

\* ---------------------------------------------------------------------
\* A pool that is never destroyed, under a fair scheduler
\* ---------------------------------------------------------------------

NextPoolLive ==
    \/ PWaitCall
    \/ PWaitLock
    \/ PWaitCheck
    \/ \E s \in Submitters :
        \/ PSubmitCall(s)
        \/ PSubmitLock(s)
        \/ PSubmitBody(s)
    \/ \E w \in PoolThreads :
        \/ PWorkerLock(w)
        \/ PWorkerCheck(w)
        \/ PWorkerSpurious(w)
        \/ PWorkerCall(w)
        \/ PWorkerTaskReturn(w)

SpecPoolLive == InitPool /\ [][NextPoolLive]_vars

\* every thread that can take a step gets to take it, a thread contending
\* for tasks_mutex is not passed over forever, and a task function returns;
\* nothing obliges pthread_cond_wait to wake without a signal
FairSpecPoolLive ==
    /\ SpecPoolLive
    /\ WF_vars(PWaitCheck)
    /\ \A s \in Submitters : SF_vars(PSubmitLock(s)) /\ WF_vars(PSubmitBody(s))
    /\ \A w \in PoolThreads :
        /\ SF_vars(PWorkerLock(w))
        /\ WF_vars(PWorkerCheck(w) \/ PWorkerCall(w) \/ PWorkerTaskReturn(w))

\* C39: no lost wakeup: in a pool with at least one started worker that is
\* never destroyed, every task accepted by pool_submit is eventually
\* dequeued by a worker and its function called and completed.
C39_NoLostWakeup ==
    \A t \in Tasks :
        (t \in paccepted /\ \E w \in PoolThreads : pthreads[w] # 0)
            ~> (t \in Dequeued /\ pexec[t] = 1 /\ t \in pdone)

\* both tasks were accepted and have been executed, and a worker that ran
\* one of them is asleep on the condition again with the queue empty
C39_Witness ==
    /\ paccepted = Tasks
    /\ pdone = Tasks
    /\ pool.tasks_head = 0
    /\ \E w \in PoolThreads : pw[w] = "sleep"

\* fossil_threads_cond_waiter_count
cond_waiter_count(c) == IF c.valid = 0 THEN -1 ELSE c.waiters

\* the threads suspended in pthread_cond_wait / pthread_cond_timedwait:
\* asleep, or woken and not yet in possession of the mutex again
Suspended == {t \in CThreads : cvpc[t] \in {"waiting", "woken"}}

\* the mutex is free or held by a thread that is not inside a wait call
MutexOutsideWait == cvowner = 0 \/ cvpc[cvowner] = "idle"

\* C35 as stated: whenever the mutex is free or held by a thread that is not
\* inside a wait call, cond_waiter_count is the number of threads suspended
\* in cond_wait / cond_timedwait; it is never negative, 0 when nobody waits.
C35_WaiterCountOfAnyCond ==
    MutexOutsideWait =>
        /\ cond_waiter_count(cnd) = Cardinality(Suspended)
        /\ cond_waiter_count(cnd) >= 0

\* C35, amended: the same for a cond that is initialised (valid).
C35_WaiterCount ==
    (cnd.valid # 0 /\ MutexOutsideWait) =>
        /\ cond_waiter_count(cnd) = Cardinality(Suspended)
        /\ cond_waiter_count(cnd) >= 0

\* every thread is suspended in a wait call on the valid cond, the mutex is
\* free and the count is the number of threads
C35_Witness ==
    /\ cnd.valid # 0
    /\ cvowner = 0
    /\ Suspended = CThreads
    /\ \E t \in CThreads : cvtimed[t]
    /\ cond_waiter_count(cnd) = MaxCondThreads

\* ---------------------------------------------------------------------
\* Scheduler rounds: two ghosts with their own ids, a ledger with room for
\* the entries of a round, ghost_init among the calls
\* ---------------------------------------------------------------------

\* the candidate arrays of these callers: none, one or two candidates
RoundTagSeqs == {<<>>, << <<120>> >>, << <<120>>, <<121>> >>}

InitGhostRound ==
    /\ GhostStartCap(MaxRoundOps, MaxRoundLedger)
    /\ OthersIdle("ghost")

NextGhostRound ==
    \/ \E g \in Ghosts :
        \/ \E func \in {0, 1} : GCreate(g, GhostId(g), func)
        \/ \E tags \in RoundTagSeqs : GPropose(g, tags, SameData(tags), TRUE)
        \/ GStep(g, 1)
        \/ GCollapse(g)
        \/ GQueueAdd(g)
        \/ GDispose(g)
    \/ GSchedule(1)
    \/ GInit

SpecGhostRound == InitGhostRound /\ [][NextGhostRound]_vars


\* the one action a round performs on a ghost object, by the state the
\* ghost is in when its queue entry is reached
RoundAction(G) ==
    IF G.finished # 0 THEN "none"
    ELSE IF G.candidate_count > 0 THEN "collapse"
    ELSE IF G.func # 0 THEN "step"
    ELSE "none"

\* a round over the queue entries todo, first entry first
RECURSIVE Round(_, _, _)
Round(st, todo, out) ==
    IF todo = <<>> THEN st
    ELSE LET g == Head(todo)
             a == RoundAction(st.gh[g])
             st1 == IF a = "collapse" THEN ghost_collapse(st, g)
                    ELSE IF a = "step" THEN ghost_step(st, g, out)
                    ELSE st
         IN Round(st1, Tail(todo), out)

\* the entries in added can be assigned to queue entries of their ghost's
\* id, each to its own, later entries to later queue entries
InQueueOrder(added, q, gh) ==
    \E f \in [1..Len(added) -> 1..Len(q)] :
        /\ \A j \in 1..Len(added) : gh[q[f[j]]].id = added[j].ghost_id
        /\ \A j, k \in 1..Len(added) : j < k => f[j] < f[k]

\* C32: one ghost_schedule call with a non-empty queue visits the queue
\* entries in insertion order, each once, and performs on each ghost the one
\* action its state asks for (none if finished, collapse if candidates are
\* pending, else step if it has a func, else none); the ledger entries the
\* round appends appear in queue order; the queue itself is left as it was.
C32_ScheduleRound ==
    [][\A out2 \in Ptrs :
        (/\ gops' # gops
         /\ gqueue[1] # <<>>
         /\ gqueue' = gqueue
         /\ GSchedule(out2)) =>
            \A r \in Runs :
                LET out == IF r = 1 THEN 1 ELSE out2
                    want == Round(GState(r), gqueue[r], out)
                    n == Len(gledger[r])
                IN /\ gops' = gops + 1
                   /\ ghost'[r] = want.gh
                   /\ gledger'[r] = want.led
                   /\ Len(gledger'[r]) >= n
                   /\ InQueueOrder(SubSeq(gledger'[r], n + 1, Len(gledger'[r])),
                                   gqueue[r], ghost[r])]_vars

\* after one round over the queue <<1, 2>> of two ghosts with a func: both
\* have stepped once and the two step entries follow the two create entries
\* in queue order
C32_Witness ==
    /\ gops = MaxRoundOps
    /\ gqueue[1] = <<1, 2>>
    /\ \A g \in Ghosts : ghost[1][g].step_index = 1 /\ ghost[1][g].state = FirstRunData(1)
    /\ Len(gledger[1]) = 4
    /\ gledger[1][3].ghost_id = GhostId(1) /\ gledger[1][3].step_index = 1
    /\ gledger[1][4].ghost_id = GhostId(2) /\ gledger[1][4].step_index = 1


\* C34: the queue never holds more than its capacity and the ledger never
\* more than its own; queue_add on a full queue returns BUSY and leaves the
\* queue as it was, otherwise it appends the ghost after the earlier entries;
\* the ledger never gets shorter and the queue never loses an entry, except
\* through ghost_init, which empties both.
C34_BoundsAndGrowth ==
    [][\A r \in Runs :
        /\ Len(gqueue[r]) <= MaxQueue /\ Len(gqueue'[r]) <= MaxQueue
        /\ Len(gledger[r]) <= gcap /\ Len(gledger'[r]) <= gcap
        /\ IF gops' # gops /\ GInit
           THEN gledger'[r] = <<>> /\ gqueue'[r] = <<>>
           ELSE /\ Len(gledger'[r]) >= Len(gledger[r])
                /\ Len(gqueue'[r]) >= Len(gqueue[r])
                /\ SubSeq(gqueue'[r], 1, Len(gqueue[r])) = gqueue[r]
        /\ \A g \in Ghosts :
             (gops' # gops /\ GQueueAdd(g)) =>
                IF Len(gqueue[r]) >= MaxQueue
                THEN /\ ghost_queue_add(GState(r), g).rc = GHOST_EBUSY
                     /\ gqueue'[r] = gqueue[r]
                ELSE /\ ghost_queue_add(GState(r), g).rc = GHOST_OK
                     /\ gqueue'[r] = Append(gqueue[r], g)]_vars

\* a ghost was created and queued until the queue was full, and one more
\* call (a rejected queue_add among them) left everything as it was
C34_Witness ==
    /\ gops = MaxQueue + 2
    /\ \A r \in Runs :
        /\ Len(gqueue[r]) = MaxQueue
        /\ Len(gledger[r]) = 1
        /\ grets[r] = <<>>
    /\ \E g \in Ghosts : gcreated = {g} /\ ghost[1][g].finished = 0

====
